---- MODULE Spec2Model ----
(***************************************************************************)
(* Model of the retry executor of github-edit (src/github/client.rs) and   *)
(* of the transport adapters that feed it: the raw-HTTP milestone/label    *)
(* operations (client_repository.rs), the GraphQL mutations and the typed  *)
(* (octocrab) operations (client_issue.rs, client_pull_request.rs,         *)
(* client_project.rs).                                                     *)
(*                                                                         *)
(* One behaviour is one call of a GitHubClient operation (or of            *)
(* retry_with_backoff with a caller-supplied closure): Call starts it, the *)
(* attempt actions run one invocation of the operation each, SleepDone     *)
(* ends a backoff sleep.  The remote service is the environment: every     *)
(* response it can give is drawn with \E.                                  *)
(***************************************************************************)
EXTENDS Integers, Sequences, FiniteSets, TLC

\* ------------------------------------------------------------------- state
VARIABLES
    token,            \* GitHubClient.token: "Some" or None
    op,               \* the operation the closure runs (a ClientOps or ClosureOp)
    operation_name,   \* the diagnostic name handed to retry_with_backoff
    max_retry_count,  \* the Option<u32> handed to retry_with_backoff
    value_kind,       \* variant of the ProjectFieldValue argument, or None
    pc,               \* "idle", "invoke", "mutate", "sleep", "done"
    attempt,          \* the local `attempt`
    calls,            \* invocations of execute_operation so far
    sleeps,           \* the delays slept (or being slept), in order, ms
    nRetryable,       \* invocations that returned Retryable
    nRateLimit,       \* invocations that returned RateLimit
    last,             \* the result of the last finished invocation
    observed,         \* what the transport showed the last invocation
    ret,              \* the value retry_with_backoff returned
    requests,         \* network requests the running (or last) invocation sent
    node_id,          \* the node id the running attempt fetched, or None
    mutation_id,      \* the node id in the last mutation sent, or None
    twin,             \* the same executor fed RateLimit <-> Retryable swapped
    conc,             \* two calls of retry_with_backoff on one runtime
    edit,             \* a call of edit_pull_request_assignees and the server
    upd,              \* a call of a partial-update operation and the server
    svc,              \* a call of a service wrapper and the list it extends
    run,              \* a call of retry_with_backoff with its arithmetic at width
    adds,             \* two calls of IssueService::add_assignees on one issue
    cpr,              \* a call of create_pull_request and the requests it sent
    fld               \* an update of a project item field, by service or client

\* ------------------------------------------------------------------ bounds
\* Largest retry budget passed explicitly as Some(n); None selects the default.
MaxBudget == 3

\* Largest retry budget of the two calls that run concurrently.
MaxConcBudget == 2

\* ------------------------------------------------------- program constants
DEFAULT_MAX_RETRY_COUNT == 15

None == "None"

\* max_retry_count: Option<u32>
NoBudget == [some |-> FALSE, value |-> 0]
SomeBudget(n) == [some |-> TRUE, value |-> n]
Budgets == {NoBudget} \cup {SomeBudget(n) : n \in 0..MaxBudget}

\* ------------------------------------------------------------- operations
RawHttpOps == {"create_milestone", "update_milestone", "delete_milestone",
               "create_label", "update_label", "delete_label"}

\* raw-HTTP operations that deserialize the 2xx body (the delete ones do not)
RawHttpParsingOps == {"create_milestone", "update_milestone",
                      "create_label", "update_label"}

\* fetch-then-mutate composites whose mutation succeeds on data-and-no-errors
IssueGraphqlOps == {"delete_issue", "remove_issue_milestone"}
PullGraphqlOps  == {"close_pull_request", "remove_pull_request_milestone"}
CompositeOps    == IssueGraphqlOps \cup PullGraphqlOps

\* fetch-then-mutate composites whose mutation succeeds when the response
\* carries the id of the new project item
ProjectAddOps == {"add_issue_to_project", "add_pull_request_to_project"}

\* every operation that fetches a node id and then sends a mutation with it
FetchMutateOps == CompositeOps \cup ProjectAddOps

\* GraphQL mutation without a preceding fetch
PlainGraphqlOps == {"update_project_item_field_value"}

GraphqlOps == CompositeOps \cup PlainGraphqlOps

\* operations that go through the typed octocrab client only
TypedOps == {"create_issue", "edit_issue_title", "add_pull_request_comment"}

\* a closure handed to retry_with_backoff by a caller (as a unit test does)
ClosureOp == "closure"
ClosureNames == {"update_milestone", "test_operation"}

ClientOps == RawHttpOps \cup GraphqlOps \cup ProjectAddOps \cup TypedOps

\* public operation that sends its GraphQL query itself
DirectOp == "get_project_node_id"

\* ProjectFieldValue variants
FieldValueKinds == {"Text", "Number", "Date", "SingleSelect", "MultiSelect"}

\* ------------------------------------------------------ ApiRetryableError
\* A result of one invocation of the operation: Ok(value) or Err(class(msg)).
\* msg is the structured content of the message text: kind says which format
\* string built it, status and text are the values interpolated into it.
Msg(kind, status, text) == [kind |-> kind, status |-> status, text |-> text]
NoMsg == Msg("none", 0, "")

Ok(v)            == [class |-> "Ok", value |-> v, msg |-> NoMsg]
NonRetryable(m)  == [class |-> "NonRetryable", value |-> "", msg |-> m]
Retryable(m)     == [class |-> "Retryable", value |-> "", msg |-> m]
RateLimit        == [class |-> "RateLimit", value |-> "", msg |-> NoMsg]

NoResult == [class |-> "none", value |-> "", msg |-> NoMsg]

\* ------------------------------------------------------- raw-HTTP adapter
\* Status codes the server can answer with (http::StatusCode spans 100..999);
\* the values sit on both sides of every boundary the classification tests.
Statuses == {199, 200, 201, 299, 300, 404, 428, 429, 430, 499, 500, 503, 599, 600}

\* StatusCode::is_success
is_success(status) == status >= 200 /\ status < 300

\* is_server_error without its upper end
is_server_error_open(status) == status >= 500

\* StatusCode::is_server_error
is_server_error(status) == status >= 500 /\ status < 600

\* StatusError as it was before client errors stopped being retried
StatusErrorRetryClientErrors(status) ==
    IF status = 429 THEN RateLimit
    ELSE Retryable(Msg("GitHub API error", status, "body"))

\* the error returned for a non-success status
StatusError(status) ==
    IF is_server_error(status)
    THEN Retryable(Msg("GitHub API error", status, "body"))
    ELSE IF status = 429 THEN RateLimit
    ELSE NonRetryable(Msg("GitHub API error", status, "body"))

\* What the server (or the network) does with one raw-HTTP request:
\* sent = FALSE is a failure of send() before any status is received;
\* parses says whether a 2xx body deserializes into the response struct.
HttpOutcomes ==
    {[sent |-> FALSE, status |-> 0, parses |-> FALSE]} \cup
    [sent : {TRUE}, status : Statuses, parses : BOOLEAN]

\* RawHttpResult giving up on a server error once two attempts have failed
RawHttpResultLosingPatience(o, out) ==
    IF ~out.sent THEN Retryable(Msg("HTTP request failed", 0, ""))
    ELSE IF is_server_error(out.status) /\ attempt >= 2
         THEN NonRetryable(Msg("GitHub API error", out.status, "body"))
    ELSE IF ~is_success(out.status) THEN StatusError(out.status)
    ELSE IF o \in RawHttpParsingOps /\ ~out.parses
         THEN NonRetryable(Msg("Failed to parse response", 0, ""))
    ELSE Ok("resource")

\* RawHttpResult sending the request again after a body that does not parse
RawHttpResultRetryUnparsed(o, out) ==
    IF ~out.sent THEN Retryable(Msg("HTTP request failed", 0, ""))
    ELSE IF ~is_success(out.status) THEN StatusError(out.status)
    ELSE IF o \in RawHttpParsingOps /\ ~out.parses
         THEN Retryable(Msg("Failed to parse response", 0, ""))
    ELSE Ok("resource")

\* the part of a *_impl of client_repository.rs after the token check
RawHttpResult(o, out) ==
    IF ~out.sent THEN Retryable(Msg("HTTP request failed", 0, ""))
    ELSE IF ~is_success(out.status) THEN StatusError(out.status)
    ELSE IF o \in RawHttpParsingOps /\ ~out.parses
         THEN NonRetryable(Msg("Failed to parse response", 0, ""))
    ELSE Ok("resource")

\* the missing token reported with the wrong class
TokenMissingRetryable == Retryable(Msg("GitHub token not configured", 0, ""))

\* self.token.as_ref().ok_or_else(..)
TokenMissing == NonRetryable(Msg("GitHub token not configured", 0, ""))

\* ------------------------------------------------------- typed adapter
\* The error values the octocrab client can hand back, by what they signal.
OctocrabErrors == {"not_found", "unprocessable", "forbidden", "rate_limit",
                   "network", "server_error", "unknown"}

\* ApiRetryableError::from_octocrab_error
from_octocrab_error(e) ==
    IF e \in {"not_found", "unprocessable", "forbidden"}
    THEN NonRetryable(Msg("octocrab", 0, e))
    ELSE IF e = "rate_limit" THEN RateLimit
    ELSE IF e \in {"network", "server_error"} THEN Retryable(Msg("octocrab", 0, e))
    ELSE NonRetryable(Msg("octocrab", 0, e))

\* --------------------------------------------------------- GraphQL adapter
\* Message texts a GraphQL error entry can carry.
GqlMessages == {"X", "API rate limit exceeded"}

\* The value under the "errors" key of a response: the key is absent, holds
\* something that is no array, an empty array, an array whose first entry has
\* no string "message", or an array whose first entry has the message given.
ErrorsValues ==
    {[shape |-> sh, message |-> ""] :
        sh \in {"absent", "not_array", "empty", "no_message"}}
    \cup {[shape |-> "array", message |-> m] : m \in GqlMessages}

\* serde_json::Value of a GraphQL response: is the "data" key there, does it
\* hold a string where the caller reads an id (item: at
\* addProjectV2ItemById.item.id, or at user|organization.projectV2.id for the
\* project query), and errors
GraphqlResponses ==
    {r \in [data : BOOLEAN, item : BOOLEAN, errors : ErrorsValues] :
        r.item => r.data}

\* the responses the request of operation o can be answered with: only an
\* addProjectV2ItemById mutation and the project query are answered with an id
ResponsesOf(o) ==
    IF o \in ProjectAddOps \cup {DirectOp} THEN GraphqlResponses
    ELSE {r \in GraphqlResponses : ~r.item}

\* GraphqlErrorMsg looking the message up under a key no entry has
GraphqlErrorMsgWrongKey(response) == "Unknown GraphQL error"

\* GraphqlErrorMsg falling back to the empty text
GraphqlErrorMsgEmptyDefault(response) ==
    IF response.errors.shape = "array" THEN response.errors.message ELSE ""

\* response.get("errors").and_then(as_array).and_then(first)
\*     .and_then(get("message")).and_then(as_str).unwrap_or("Unknown GraphQL error")
GraphqlErrorMsg(response) ==
    IF response.errors.shape = "array" THEN response.errors.message
    ELSE "Unknown GraphQL error"

\* response.get("data").is_some() && response.get("errors").is_none()
GraphqlSuccess(response) ==
    response.data /\ response.errors.shape = "absent"

\* ProjectAddSuccess demanding an errors-free response as well
ProjectAddSuccessNoErrors(response) ==
    response.data /\ response.item /\ response.errors.shape = "absent"

\* response.get("data") holds a string at addProjectV2ItemById.item.id
ProjectAddSuccess(response) == response.data /\ response.item

\* the format string of the NonRetryable error of each mutation
FailureText(o) ==
    CASE o = "delete_issue" -> "Failed to delete issue"
      [] o = "remove_issue_milestone" -> "Failed to remove milestone from issue"
      [] o = "close_pull_request" -> "Failed to close pull request"
      [] o = "remove_pull_request_milestone" ->
             "Failed to remove milestone from pull request"
      [] o = "update_project_item_field_value" ->
             "Failed to update project item field value"
      [] o = "add_issue_to_project" -> "Failed to add issue to project"
      [] o = "add_pull_request_to_project" ->
             "Failed to add pull request to project"

\* the tail of a GraphQL *_impl: classify the response of the mutation
GraphqlResult(o, response) ==
    IF o \in ProjectAddOps
    THEN IF ProjectAddSuccess(response) THEN Ok("item_id")
         ELSE NonRetryable(Msg(FailureText(o), 0, GraphqlErrorMsg(response)))
    ELSE IF GraphqlSuccess(response) THEN Ok("unit")
    ELSE NonRetryable(Msg(FailureText(o), 0, GraphqlErrorMsg(response)))

\* ProjectFieldValue::MultiSelect arm of update_project_item_field_value_impl
MultiSelectUnsupported ==
    NonRetryable(Msg("Multi-select fields are not supported", 0, ""))

\* octocrab_pr.node_id.ok_or_else(..)
NoNodeId == NonRetryable(Msg("Pull request has no node_id", 0, ""))

\* octocrab_pull_request.node_id.ok_or_else(..) of add_pull_request_to_project
NoNodeIdProject ==
    NonRetryable(Msg("Pull request does not have a node_id", 0, ""))

\* operations whose fetch reads a pull request (node_id: Option<String>)
PullFetchOps == PullGraphqlOps \cup {"add_pull_request_to_project"}

\* node ids the REST fetch can return for the same issue or pull request
NodeIds == {"N1", "N2"}

\* MutationNodeId keeping the id of the first fetch for the later attempts
MutationNodeIdCached(fetched, earlier) ==
    IF earlier # None THEN earlier ELSE fetched

\* the id format! writes into the mutation: the one the fetch of this run of
\* the *_impl returned (earlier is the id the previous mutation carried, which
\* no *_impl keeps)
MutationNodeId(fetched, earlier) == fetched

\* ---------------------------------------------------------- retry executor
\* MaxRetries counting Some(n) as n attempts rather than n retries
MaxRetriesAsAttempts(mrc) ==
    IF mrc.some THEN (IF mrc.value = 0 THEN 0 ELSE mrc.value - 1)
    ELSE DEFAULT_MAX_RETRY_COUNT - 1

\* max_retry_count.unwrap_or(DEFAULT_MAX_RETRY_COUNT)
MaxRetries(mrc) == IF mrc.some THEN mrc.value ELSE DEFAULT_MAX_RETRY_COUNT

\* Delay growing linearly instead of doubling
DelayLinear(att) == 100 * (att + 1)

\* Delay with a ceiling of one minute
DelayCapped(att) == IF 100 * (2 ^ att) > 60000 THEN 60000 ELSE 100 * (2 ^ att)

\* Duration::from_millis(100 * (1 << attempt)), in milliseconds.  The budgets of
\* this model keep attempt below 16, far from the width of the u64 product.
Delay(att) == 100 * (2 ^ att)

\* Exhausted with the comparison off by one
ExhaustedOffByOne(att, max_retries) == att > max_retries

\* `attempt >= max_retries`: no retry is left
Exhausted(att, max_retries) == att >= max_retries

\* Display of an ApiRetryableError, as interpolated into the terminal error
Display(e) ==
    IF e.class = "RateLimit" THEN Msg("Rate limit exceeded", 0, "") ELSE e.msg

\* The value retry_with_backoff returns.  An Err carries the text built by one
\* of the two anyhow! format strings: fmt says which, name is the operation
\* name, attempts the count interpolated by "failed after {} attempts" (0 when
\* the format has no such field), cause the Display of the last error.
NoRet == [kind |-> "none", value |-> "", fmt |-> "", name |-> "",
          attempts |-> 0, cause |-> NoMsg]
RetOkUnit(v) == [kind |-> "Ok", value |-> "", fmt |-> "", name |-> "",
                 attempts |-> 0, cause |-> NoMsg]
RetOk(v) == [kind |-> "Ok", value |-> v, fmt |-> "", name |-> "",
             attempts |-> 0, cause |-> NoMsg]
RetFailed(name, e) ==
    [kind |-> "Err", value |-> "", fmt |-> "Operation {} failed: {}",
     name |-> name, attempts |-> 0, cause |-> Display(e)]
RetFailedAfterAttemptIndex(name, n, e) ==
    [kind |-> "Err", value |-> "",
     fmt |-> "Operation {} failed after {} attempts: {}",
     name |-> name, attempts |-> n - 1, cause |-> Display(e)]
RetFailedAfter(name, n, e) ==
    [kind |-> "Err", value |-> "",
     fmt |-> "Operation {} failed after {} attempts: {}",
     name |-> name, attempts |-> n, cause |-> Display(e)]

\* What get_project_node_id returns: the octocrab error as `?` converts it,
\* the anyhow! error of a response without a project id, or the id.
RetRaw(e) ==
    [kind |-> "Err", value |-> "", fmt |-> "{}", name |-> "", attempts |-> 0,
     cause |-> Msg("octocrab", 0, e)]
RetNoProjectId ==
    [kind |-> "Err", value |-> "",
     fmt |-> "Failed to get project node ID for project {}/{}", name |-> "",
     attempts |-> 0, cause |-> NoMsg]
ProjectNodeIdResult(response) ==
    IF response.data /\ response.item THEN RetOk("project_node_id")
    ELSE RetNoProjectId

\* MatchResult without the NonRetryable arm: every error is retried
MatchResultRetryEveryError(name, max_retries, att, res) ==
    IF res.class = "Ok"
    THEN [next |-> "done", delay |-> 0, ret |-> RetOk(res.value)]
    ELSE IF Exhausted(att, max_retries)
    THEN [next |-> "done", delay |-> 0, ret |-> RetFailedAfter(name, att + 1, res)]
    ELSE [next |-> "sleep", delay |-> Delay(att), ret |-> NoRet]

\* MatchResult backing off twice as long after a RateLimit
MatchResultLongerRateLimitDelay(name, max_retries, att, res) ==
    IF res.class = "Ok"
    THEN [next |-> "done", delay |-> 0, ret |-> RetOk(res.value)]
    ELSE IF res.class = "NonRetryable"
    THEN [next |-> "done", delay |-> 0, ret |-> RetFailed(name, res)]
    ELSE IF Exhausted(att, max_retries)
    THEN [next |-> "done", delay |-> 0, ret |-> RetFailedAfter(name, att + 1, res)]
    ELSE [next |-> "sleep",
          delay |-> IF res.class = "RateLimit" THEN 2 * Delay(att) ELSE Delay(att),
          ret |-> NoRet]

\* The body of the loop after `execute_operation().await` produced res with
\* the attempt counter at att: return (next = "done") or sleep for delay.
MatchResult(name, max_retries, att, res) ==
    IF res.class = "Ok"
    THEN [next |-> "done", delay |-> 0, ret |-> RetOk(res.value)]
    ELSE IF res.class = "NonRetryable"
    THEN [next |-> "done", delay |-> 0, ret |-> RetFailed(name, res)]
    ELSE IF Exhausted(att, max_retries)
    THEN [next |-> "done", delay |-> 0, ret |-> RetFailedAfter(name, att + 1, res)]
    ELSE [next |-> "sleep", delay |-> Delay(att), ret |-> NoRet]

\* ------------------------------------------------------------- state tuples
\* the state of one call of a client operation
callVars == <<token, op, operation_name, max_retry_count, value_kind, pc,
              attempt, calls, sleeps, nRetryable, nRateLimit, last, observed,
              ret, requests, node_id, mutation_id, twin>>

\* the state the single-call actions leave alone
aside == <<conc, edit, upd, svc, run, adds, cpr, fld>>

vars == <<token, op, operation_name, max_retry_count, value_kind, pc, attempt,
          calls, sleeps, nRetryable, nRateLimit, last, observed, ret, requests,
          node_id, mutation_id, twin, conc, edit, upd, svc, run,
          adds, cpr, fld>>

\* What the transport showed: nothing yet, no request at all, an HTTP outcome,
\* a GraphQL response or an octocrab error.
Observed(kind, http, gql, err) ==
    [kind |-> kind, http |-> http, gql |-> gql, err |-> err]
NoHttp == [sent |-> FALSE, status |-> 0, parses |-> FALSE]
NoGql  == [data |-> FALSE, item |-> FALSE,
           errors |-> [shape |-> "absent", message |-> ""]]
ObservedNothing   == Observed("none", NoHttp, NoGql, "")
ObservedNoRequest == Observed("no_request", NoHttp, NoGql, "")
ObservedHttp(out) == Observed("http", out, NoGql, "")
ObservedGql(r)    == Observed("graphql", NoHttp, r, "")
ObservedErr(stage, e) == Observed(stage, NoHttp, NoGql, e)
ObservedOk(stage) == Observed(stage, NoHttp, NoGql, "")

NewTwin == [pc |-> "invoke", attempt |-> 0, calls |-> 0, sleeps |-> <<>>,
            retkind |-> "none"]

\* One of the concurrent calls before it is made.  name and budget are its
\* arguments; attempt is its local counter; results are the results its own
\* closure has returned, in order; sleeps the delays it has slept.
ConcIds == {1, 2}
NewCall == [pc |-> "idle", name |-> None, budget |-> NoBudget, attempt |-> 0,
            results |-> <<>>, sleeps |-> <<>>, ret |-> NoRet]

\* Logins that can be assignees of the pull request.
Users == {"u1", "u2"}

\* A call of edit_pull_request_assignees before it is made.  new is the
\* new_assignees argument, server the assignees the pull request has on
\* GitHub, current the current_assignees the running attempt fetched, lost
\* says whether some step took effect on the server and yet reported failure,
\* before the assignees the pull request had when the call was made.
NewEdit == [pc |-> "idle", new |-> {}, server |-> {}, before |-> {},
            current |-> {},
            attempt |-> 0, calls |-> 0, lost |-> FALSE, last |-> "none",
            retkind |-> "none"]

\* A call of update_milestone or update_label before it is made.  args maps
\* each optional argument to its value or None, body is the JSON object of
\* the last request built (key -> value), server the fields the resource has
\* on GitHub, sent says whether a request reached the server.
\* a call of retry_with_backoff before it is made; ms is the last delay
\* computed, a u64 held as four 16-bit limbs, least significant first
NewRun == [pc |-> "idle", budget |-> NoBudget, overflow_checks |-> FALSE,
           attempt |-> 0, calls |-> 0, nsleeps |-> 0, last |-> "none",
           ms |-> <<0, 0, 0, 0>>, retkind |-> "none"]

\* two calls of IssueService::add_assignees before they are made, and the
\* assignees of the issue they both work on
NewAdds == [server |-> <<>>, before |-> <<>>,
            call |-> [i \in {1, 2} |->
                        [pc |-> "idle", input |-> <<>>, read |-> <<>>,
                         added |-> <<>>, skipped |-> <<>>, retkind |-> None]]]

\* a call of create_pull_request before it is made: creates and fetches count
\* the create requests and the get_pull_request_impl runs started
NewCreate == [pc |-> "idle", attempt |-> 0, calls |-> 0, creates |-> 0,
              fetches |-> 0, failed_at |-> None, last |-> "none",
              retkind |-> "none"]

\* an update of a project item field before it is asked for: entry is the
\* function called, value the variant of ProjectFieldValue passed,
\* reached_client whether GitHubClient was called, requests the requests
\* sent in the whole call, nsleeps the sleeps started
NewField == [pc |-> "idle", entry |-> None, value |-> None,
             reached_client |-> FALSE, attempt |-> 0, calls |-> 0,
             requests |-> 0, nsleeps |-> 0, last |-> "none",
             retkind |-> "none"]

\* a service call that has not started
NewService == [pc |-> "idle", op |-> None, input |-> <<>>, server |-> <<>>,
               read |-> <<>>, added |-> <<>>, skipped |-> <<>>,
               writes |-> <<>>, retkind |-> None]

NewUpdate == [pc |-> "idle", op |-> None, args |-> <<>>, body |-> <<>>,
              server |-> <<>>, attempt |-> 0, sent |-> FALSE, last |-> "none",
              retkind |-> "none"]

\* GitHubClient::new(token, _): the client exists, nothing has been called
Init ==
    /\ token \in {"Some", None}
    /\ op = None
    /\ operation_name = None
    /\ max_retry_count = NoBudget
    /\ value_kind = None
    /\ pc = "idle"
    /\ attempt = 0
    /\ calls = 0
    /\ sleeps = <<>>
    /\ nRetryable = 0
    /\ nRateLimit = 0
    /\ last = NoResult
    /\ observed = ObservedNothing
    /\ ret = NoRet
    /\ requests = 0
    /\ node_id = None
    /\ mutation_id = None
    /\ twin = NewTwin
    /\ conc = [i \in ConcIds |-> NewCall]
    /\ edit = NewEdit
    /\ upd = NewUpdate
    /\ svc = NewService
    /\ run = NewRun
    /\ adds = NewAdds
    /\ cpr = NewCreate
    /\ fld = NewField

\* A public GitHubClient operation is called: it hands its name, None and the
\* closure around its *_impl to retry_with_backoff (attempt = 0, loop entered).
CallClientOp ==
    /\ UNCHANGED aside
    /\ pc = "idle"
    /\ \E o \in ClientOps :
        /\ op' = o
        /\ operation_name' = o
        /\ value_kind' \in (IF o = "update_project_item_field_value"
                            THEN FieldValueKinds ELSE {None})
    /\ max_retry_count' = NoBudget
    /\ pc' = "invoke"
    /\ attempt' = 0
    /\ UNCHANGED <<token, calls, sleeps, nRetryable, nRateLimit, last, observed,
                   ret, requests, node_id, mutation_id, twin>>

\* retry_with_backoff is called with a closure of the caller's own, any name
\* and any budget.
CallClosure ==
    /\ UNCHANGED aside
    /\ pc = "idle"
    /\ op' = ClosureOp
    /\ operation_name' \in ClosureNames
    /\ max_retry_count' \in Budgets
    /\ value_kind' = None
    /\ pc' = "invoke"
    /\ attempt' = 0
    /\ UNCHANGED <<token, calls, sleeps, nRetryable, nRateLimit, last, observed,
                   ret, requests, node_id, mutation_id, twin>>

\* The results a class-preserving swap of RateLimit and Retryable can turn res
\* into (res itself included).
Swaps(res) ==
    {res} \cup (IF res.class = "RateLimit" THEN {Retryable(NoMsg)}
                ELSE IF res.class = "Retryable" THEN {RateLimit}
                ELSE {})

\* the twin executor takes the result sres of its own invocation
TwinResult(tw, sres) ==
    IF tw.pc # "invoke" THEN tw
    ELSE LET m == MatchResult(operation_name, MaxRetries(max_retry_count),
                              tw.attempt, sres)
         IN [pc |-> m.next, attempt |-> tw.attempt, calls |-> tw.calls + 1,
             sleeps |-> IF m.next = "sleep" THEN Append(tw.sleeps, m.delay)
                        ELSE tw.sleeps,
             retkind |-> m.ret.kind]

\* Complete sleeping after every retryable failure, the last one included
CompleteSleepsBeforeReturn(res) ==
    LET m == MatchResult(operation_name, MaxRetries(max_retry_count), attempt, res)
    IN /\ last' = res
       /\ nRetryable' = nRetryable + (IF res.class = "Retryable" THEN 1 ELSE 0)
       /\ nRateLimit' = nRateLimit + (IF res.class = "RateLimit" THEN 1 ELSE 0)
       /\ pc' = m.next
       /\ ret' = m.ret
       /\ sleeps' = IF res.class \in {"Retryable", "RateLimit"}
                    THEN Append(sleeps, Delay(attempt)) ELSE sleeps
       /\ node_id' = None
       /\ \E sres \in Swaps(res) : twin' = TwinResult(twin, sres)
       /\ UNCHANGED <<token, op, operation_name, max_retry_count, value_kind,
                      attempt>>

\* Complete matching on the result of the invocation before this one
CompleteReturnsEarlierResult(res) ==
    LET m == MatchResult(operation_name, MaxRetries(max_retry_count), attempt,
                         IF last.class = "none" THEN res
                         ELSE [last EXCEPT !.class = res.class])
    IN /\ last' = res
       /\ nRetryable' = nRetryable + (IF res.class = "Retryable" THEN 1 ELSE 0)
       /\ nRateLimit' = nRateLimit + (IF res.class = "RateLimit" THEN 1 ELSE 0)
       /\ pc' = m.next
       /\ ret' = m.ret
       /\ sleeps' = IF m.next = "sleep" THEN Append(sleeps, m.delay) ELSE sleeps
       /\ node_id' = None
       /\ \E sres \in Swaps(res) : twin' = TwinResult(twin, sres)
       /\ UNCHANGED <<token, op, operation_name, max_retry_count, value_kind,
                      attempt>>

\* One invocation of execute_operation has returned res: the executor matches
\* on it and either returns or starts the backoff sleep.
Complete(res) ==
    LET m == MatchResult(operation_name, MaxRetries(max_retry_count), attempt, res)
    IN /\ last' = res
       /\ nRetryable' = nRetryable + (IF res.class = "Retryable" THEN 1 ELSE 0)
       /\ nRateLimit' = nRateLimit + (IF res.class = "RateLimit" THEN 1 ELSE 0)
       /\ pc' = m.next
       /\ ret' = m.ret
       /\ sleeps' = IF m.next = "sleep" THEN Append(sleeps, m.delay) ELSE sleeps
       /\ node_id' = None
       /\ \E sres \in Swaps(res) : twin' = TwinResult(twin, sres)
       /\ UNCHANGED <<token, op, operation_name, max_retry_count, value_kind,
                      attempt>>

\* values a caller's closure can produce, and the messages of its errors
ClosureValues == {"v1", "v2"}
ClosureResults ==
    {Ok(v) : v \in ClosureValues}
    \cup {NonRetryable(Msg("closure", 0, "bad input")),
          Retryable(Msg("closure", 0, "network blip")),
          RateLimit}

\* the caller's closure runs once and returns any result
InvokeClosure ==
    /\ UNCHANGED aside
    /\ pc = "invoke"
    /\ op = ClosureOp
    /\ calls' = calls + 1
    /\ \E res \in ClosureResults : Complete(res)
    /\ observed' = ObservedNoRequest
    /\ requests' = 0
    /\ UNCHANGED mutation_id

\* One run of a *_impl of client_repository.rs: without a token it fails before
\* any request; otherwise one request is sent and its outcome classified.
RawHttpAttempt ==
    /\ UNCHANGED aside
    /\ pc = "invoke"
    /\ op \in RawHttpOps
    /\ calls' = calls + 1
    /\ IF token = None
       THEN /\ Complete(TokenMissing)
            /\ observed' = ObservedNoRequest
            /\ requests' = 0
       ELSE \E out \in HttpOutcomes :
            /\ Complete(RawHttpResult(op, out))
            /\ observed' = ObservedHttp(out)
            /\ requests' = 1
    /\ UNCHANGED mutation_id

\* One run of a *_impl that makes a single typed octocrab call: the request is
\* built and sent whatever the token, and an error goes through
\* from_octocrab_error.
TypedAttempt ==
    /\ UNCHANGED aside
    /\ pc = "invoke"
    /\ op \in TypedOps
    /\ calls' = calls + 1
    /\ requests' = 1
    /\ \/ /\ Complete(Ok("resource"))
          /\ observed' = ObservedOk("octocrab")
       \/ \E e \in OctocrabErrors :
            /\ Complete(from_octocrab_error(e))
            /\ observed' = ObservedErr("octocrab", e)
    /\ UNCHANGED mutation_id

\* FetchFailure wrapping the error of the fetch as a transient one
FetchFailureAsRetryable(e) == Retryable(Msg("Failed to fetch", 0, e))

\* .map_err(ApiRetryableError::from_octocrab_error)? after the fetch: the
\* classified error leaves the *_impl as it is
FetchFailure(e) == from_octocrab_error(e)

\* First half of a fetch-then-mutate *_impl: the issue or pull request is read
\* through octocrab for its node id.  An error ends the attempt; a pull request
\* can come back without a node id, an issue cannot.
FetchNodeId ==
    /\ UNCHANGED aside
    /\ pc = "invoke"
    /\ op \in FetchMutateOps
    /\ calls' = calls + 1
    /\ requests' = 1
    /\ \/ \E n \in NodeIds :
            /\ node_id' = n
            /\ pc' = "mutate"
            /\ observed' = ObservedOk("fetch")
            /\ UNCHANGED <<token, op, operation_name, max_retry_count,
                           value_kind, attempt, sleeps, nRetryable, nRateLimit,
                           last, ret, twin>>
       \/ /\ op \in PullFetchOps
          /\ Complete(IF op \in ProjectAddOps THEN NoNodeIdProject ELSE NoNodeId)
          /\ observed' = ObservedOk("fetch")
       \/ \E e \in OctocrabErrors :
            /\ Complete(FetchFailure(e))
            /\ observed' = ObservedErr("fetch", e)
    /\ UNCHANGED mutation_id

\* self.client.graphql(..).await and the check of the response: the POST fails
\* with an octocrab error or brings back a JSON value (before requests were
\* sent earlier in the same invocation)
GraphqlRequest(before) ==
    /\ requests' = before + 1
    /\ \/ \E e \in OctocrabErrors :
            /\ Complete(from_octocrab_error(e))
            /\ observed' = ObservedErr("graphql_error", e)
       \/ \E r \in ResponsesOf(op) :
            /\ Complete(GraphqlResult(op, r))
            /\ observed' = ObservedGql(r)

\* Second half of a fetch-then-mutate *_impl: the mutation is sent with the
\* node id just fetched.
GraphqlMutate ==
    /\ UNCHANGED aside
    /\ pc = "mutate"
    /\ op \in FetchMutateOps
    /\ mutation_id' = MutationNodeId(node_id, mutation_id)
    /\ GraphqlRequest(requests)
    /\ UNCHANGED calls

\* One run of update_project_item_field_value_impl: a MultiSelect value is
\* rejected before any request, every other variant sends the mutation.
UpdateProjectItemFieldValueAttempt ==
    /\ UNCHANGED aside
    /\ pc = "invoke"
    /\ op \in PlainGraphqlOps
    /\ calls' = calls + 1
    /\ IF value_kind = "MultiSelect"
       THEN /\ Complete(MultiSelectUnsupported)
            /\ observed' = ObservedNoRequest
            /\ requests' = 0
       ELSE GraphqlRequest(0)
    /\ UNCHANGED mutation_id

\* get_project_node_id is called: it POSTs its query through the octocrab
\* client and returns; retry_with_backoff is not involved, so the operation
\* closure is never invoked and nothing is classified.
GetProjectNodeId ==
    /\ UNCHANGED aside
    /\ pc = "idle"
    /\ op' = DirectOp
    /\ pc' = "done"
    /\ requests' = 1
    /\ \/ \E e \in OctocrabErrors :
            /\ ret' = RetRaw(e)
            /\ observed' = ObservedErr("graphql_error", e)
       \/ \E r \in ResponsesOf(DirectOp) :
            /\ ret' = ProjectNodeIdResult(r)
            /\ observed' = ObservedGql(r)
    /\ twin' = [twin EXCEPT !.pc = "done", !.retkind = ret'.kind]
    /\ UNCHANGED <<token, operation_name, max_retry_count, value_kind, attempt,
                   calls, sleeps, nRetryable, nRateLimit, last, node_id,
                   mutation_id>>

\* SleepDone counting the failure twice
SleepDoneSkipsAnAttempt ==
    /\ UNCHANGED aside
    /\ pc = "sleep"
    /\ pc' = "invoke"
    /\ attempt' = attempt + 2
    /\ twin' = IF twin.pc = "sleep"
               THEN [twin EXCEPT !.pc = "invoke", !.attempt = @ + 1]
               ELSE twin
    /\ UNCHANGED <<token, op, operation_name, max_retry_count, value_kind, calls,
                   sleeps, nRetryable, nRateLimit, last, observed, ret, requests,
                   node_id, mutation_id>>

\* sleep(delay).await returns; attempt += 1 and the loop invokes again
SleepDone ==
    /\ UNCHANGED aside
    /\ pc = "sleep"
    /\ pc' = "invoke"
    /\ attempt' = attempt + 1
    /\ twin' = IF twin.pc = "sleep"
               THEN [twin EXCEPT !.pc = "invoke", !.attempt = @ + 1]
               ELSE twin
    /\ UNCHANGED <<token, op, operation_name, max_retry_count, value_kind, calls,
                   sleeps, nRetryable, nRateLimit, last, observed, ret, requests,
                   node_id, mutation_id>>

Next ==
    \/ CallClientOp
    \/ CallClosure
    \/ InvokeClosure
    \/ RawHttpAttempt
    \/ TypedAttempt
    \/ FetchNodeId
    \/ GraphqlMutate
    \/ UpdateProjectItemFieldValueAttempt
    \/ GetProjectNodeId
    \/ SleepDone

Spec == Init /\ [][Next]_vars

\* ------------------------------------------------ concurrent calls
\* AttemptOf reading one counter shared by the calls
AttemptOfShared(c, i) == c[1].attempt + c[2].attempt

\* `let mut attempt = 0`: the counter is a local of each call
AttemptOf(c, i) == c[i].attempt

\* retry_with_backoff is called a second time while another call may be
\* suspended at an await: its own attempt = 0 and max_retries are set
ConcCall ==
    \E i \in ConcIds :
        /\ conc[i].pc = "idle"
        /\ \E n \in 0..MaxConcBudget, nm \in ClosureNames :
              conc' = [conc EXCEPT ![i] = [@ EXCEPT !.pc = "invoke",
                                                    !.name = nm,
                                                    !.budget = SomeBudget(n)]]
        /\ UNCHANGED <<callVars, edit, upd, svc, run, adds, cpr, fld>>

\* execute_operation().await of call i completes with any result and the
\* call runs on to its next await (the sleep) or to its return
ConcInvoke ==
    \E i \in ConcIds :
        /\ conc[i].pc = "invoke"
        /\ \E res \in ClosureResults :
              LET c == conc[i]
                  m == MatchResult(c.name, MaxRetries(c.budget),
                                   AttemptOf(conc, i), res)
              IN conc' = [conc EXCEPT ![i] =
                            [@ EXCEPT !.pc = m.next,
                                      !.results = Append(@, res),
                                      !.sleeps = IF m.next = "sleep"
                                                 THEN Append(@, m.delay) ELSE @,
                                      !.ret = m.ret]]
        /\ UNCHANGED <<callVars, edit, upd, svc, run, adds, cpr, fld>>

\* sleep(delay).await of call i completes: attempt += 1, next invocation
ConcSleepDone ==
    \E i \in ConcIds :
        /\ conc[i].pc = "sleep"
        /\ conc' = [conc EXCEPT ![i] = [@ EXCEPT !.pc = "invoke",
                                                !.attempt = @ + 1]]
        /\ UNCHANGED <<callVars, edit, upd, svc, run, adds, cpr, fld>>

ConcNext ==
    \/ ConcCall
    \/ ConcInvoke
    \/ ConcSleepDone

\* two calls interleaved at their await points, in any order
SpecConc == Init /\ [][ConcNext]_vars

\* The future of call i is dropped at one of its two await points, the
\* operation in flight or the backoff sleep: retry_with_backoff has no code
\* for this, the call just stops there and returns neither Ok nor Err.
ConcCancel ==
    \E i \in ConcIds :
        /\ conc[i].pc \in {"invoke", "sleep"}
        /\ conc' = [conc EXCEPT ![i] = [@ EXCEPT !.pc = "dropped"]]
        /\ UNCHANGED <<callVars, edit, upd, svc, run, adds, cpr, fld>>

CancelNext ==
    \/ ConcCall
    \/ ConcInvoke
    \/ ConcSleepDone
    \/ ConcCancel

\* calls that may be cancelled at any await point
SpecCancel == Init /\ [][CancelNext]_vars

\* ------------------------------------------- edit_pull_request_assignees
\* errors of a request that may have reached the server and taken effect
TransientErrors == {"network", "server_error"}

\* AssigneesToRemove of an implementation that only adds
AssigneesToRemoveNone(current) == {}

\* current_assignee_refs: every login the fetch returned is removed
AssigneesToRemove(current) == current

\* AfterFetch going straight to the addition
AfterFetchSkipsRemove(e) == IF e.new # {} THEN "add" ELSE "ok"

\* the step after the fetch, and after the removal
AfterFetch(e) ==
    IF e.current # {} THEN "remove" ELSE IF e.new # {} THEN "add" ELSE "ok"
AfterRemove(e) == IF e.new # {} THEN "add" ELSE "ok"

\* the running invocation of edit_pull_request_assignees_impl returns res to
\* retry_with_backoff("edit_pull_request_assignees", None, ..)
EditReturn(e, res) ==
    LET m == MatchResult("edit_pull_request_assignees", MaxRetries(NoBudget),
                         e.attempt, res)
    IN [e EXCEPT !.pc = m.next, !.last = res.class, !.retkind = m.ret.kind]

\* a step succeeded and the *_impl moves on to step next, or returns Ok(())
EditAdvance(e, next) ==
    IF next = "ok" THEN EditReturn(e, Ok("unit")) ELSE [e EXCEPT !.pc = next]

\* edit_pull_request_assignees is called with any new_assignees on a pull
\* request that has any assignees; the first invocation starts
EditCall ==
    /\ edit.pc = "idle"
    /\ \E nw \in SUBSET Users, sv \in SUBSET Users :
          edit' = [edit EXCEPT !.pc = "fetch", !.new = nw, !.server = sv,
                               !.before = sv, !.calls = 1]
    /\ UNCHANGED <<callVars, conc, upd, svc, run, adds, cpr, fld>>

\* get_pull_request_impl, first request: the pull request is read and with it
\* its assignees as the server has them
EditFetchPull ==
    /\ edit.pc = "fetch"
    /\ \/ edit' = [edit EXCEPT !.pc = "comments", !.current = edit.server]
       \/ \E e \in OctocrabErrors :
            edit' = EditReturn(edit, from_octocrab_error(e))
    /\ UNCHANGED <<callVars, conc, upd, svc, run, adds, cpr, fld>>

\* get_pull_request_impl, second request: the comments are listed
EditListComments ==
    /\ edit.pc = "comments"
    /\ \/ edit' = EditAdvance(edit, AfterFetch(edit))
       \/ \E e \in OctocrabErrors :
            edit' = EditReturn(edit, from_octocrab_error(e))
    /\ UNCHANGED <<callVars, conc, upd, svc, run, adds, cpr, fld>>

\* remove_assignees(number, current_assignee_refs): it succeeds; or fails
\* without effect; or fails transiently after the server removed them
EditRemove ==
    /\ edit.pc = "remove"
    /\ LET removed == [edit EXCEPT
                            !.server = @ \ AssigneesToRemove(edit.current)]
       IN \/ edit' = EditAdvance(removed, AfterRemove(edit))
          \/ \E e \in OctocrabErrors :
                edit' = EditReturn(edit, from_octocrab_error(e))
          \/ \E e \in TransientErrors :
                edit' = EditReturn([removed EXCEPT !.lost = TRUE],
                                   from_octocrab_error(e))
    /\ UNCHANGED <<callVars, conc, upd, svc, run, adds, cpr, fld>>

\* add_assignees(number, new_assignee_refs): it succeeds; or fails without
\* effect; or fails transiently after the server added them
EditAdd ==
    /\ edit.pc = "add"
    /\ LET added == [edit EXCEPT !.server = @ \cup edit.new]
       IN \/ edit' = EditAdvance(added, "ok")
          \/ \E e \in OctocrabErrors :
                edit' = EditReturn(edit, from_octocrab_error(e))
          \/ \E e \in TransientErrors :
                edit' = EditReturn([added EXCEPT !.lost = TRUE],
                                   from_octocrab_error(e))
    /\ UNCHANGED <<callVars, conc, upd, svc, run, adds, cpr, fld>>

\* sleep(delay).await returns; attempt += 1 and the whole *_impl runs again
EditSleepDone ==
    /\ edit.pc = "sleep"
    /\ edit' = [edit EXCEPT !.pc = "fetch", !.attempt = @ + 1,
                            !.calls = @ + 1, !.current = {}]
    /\ UNCHANGED <<callVars, conc, upd, svc, run, adds, cpr, fld>>

EditNext ==
    \/ EditCall
    \/ EditFetchPull
    \/ EditListComments
    \/ EditRemove
    \/ EditAdd
    \/ EditSleepDone

\* one call of edit_pull_request_assignees, the server answering in any way
SpecEdit == Init /\ [][EditNext]_vars

\* ------------------------------------------ update_milestone, update_label
UpdateOps == {"update_milestone", "update_label"}

\* the optional arguments of each operation
ArgsOf(o) ==
    IF o = "update_milestone" THEN {"title", "description", "due_on", "state"}
    ELSE {"new_name", "color", "description"}

\* the key of request_body an argument is written under
KeyOf(a) == IF a = "new_name" THEN "name" ELSE a

\* the fields of the resource on the server, named by their JSON keys
KeysOf(o) == {KeyOf(a) : a \in ArgsOf(o)}

\* the values an argument can take: None, or Some of a value of its type
ArgValues(a) ==
    IF a = "state" THEN {None, "Open", "Closed"} ELSE {None, "new"}

\* the JSON string written for Some(v) of argument a: a MilestoneState becomes
\* "open" or "closed", a date its RFC 3339 text, a &str itself
JsonOf(a, v) ==
    IF a = "state" THEN (IF v = "Open" THEN "open" ELSE "closed")
    ELSE IF a = "due_on" THEN "new-rfc3339"
    ELSE v

\* RequestBody writing null for every argument that is None
RequestBodyWithNulls(o, args) ==
    [k \in KeysOf(o) |->
        LET a == CHOOSE x \in ArgsOf(o) : KeyOf(x) = k
        IN IF args[a] = None THEN "null" ELSE JsonOf(a, args[a])]

\* request_body: json!({}) and one `if let Some(..)` insertion per argument
RequestBody(o, args) ==
    [k \in {KeyOf(a) : a \in {x \in ArgsOf(o) : args[x] # None}} |->
        LET a == CHOOSE x \in ArgsOf(o) : KeyOf(x) = k
        IN JsonOf(a, args[a])]

\* the resource as it is before the call
ServerBefore(o) ==
    [k \in KeysOf(o) |-> IF k = "state" THEN "open" ELSE "old"]

\* PATCH on the server: the keys of the body replace the fields, the other
\* fields stay
Patch(server, body) ==
    [k \in DOMAIN server |-> IF k \in DOMAIN body THEN body[k] ELSE server[k]]

\* update_milestone or update_label is called with any arguments
UpdateCall ==
    /\ upd.pc = "idle"
    /\ \E o \in UpdateOps :
        \E args \in [ArgsOf(o) -> {None, "new", "Open", "Closed"}] :
            /\ \A a \in ArgsOf(o) : args[a] \in ArgValues(a)
            /\ upd' = [upd EXCEPT !.pc = "invoke", !.op = o, !.args = args,
                                  !.server = ServerBefore(o)]
    /\ UNCHANGED <<callVars, conc, edit, svc, run, adds, cpr, fld>>

\* the invocation returned res to retry_with_backoff(operation_name, None, ..)
UpdateReturn(u, res) ==
    LET m == MatchResult(u.op, MaxRetries(NoBudget), u.attempt, res)
    IN [u EXCEPT !.pc = m.next, !.last = res.class, !.retkind = m.ret.kind]

\* One run of update_milestone_impl or update_label_impl: the body is built
\* from the arguments; without a token nothing is sent; otherwise the PATCH
\* is sent and the server, when it answers 2xx (or when the answer is lost on
\* the way), has applied it.
UpdateAttempt ==
    /\ upd.pc = "invoke"
    /\ LET body == RequestBody(upd.op, upd.args)
           built == [upd EXCEPT !.body = body]
           applied == [built EXCEPT !.server = Patch(upd.server, body),
                                    !.sent = TRUE]
       IN IF token = None
          THEN upd' = UpdateReturn(built, TokenMissing)
          ELSE \E out \in HttpOutcomes :
                 \/ /\ out.sent /\ ~is_success(out.status)
                    /\ upd' = UpdateReturn([built EXCEPT !.sent = TRUE],
                                           RawHttpResult(upd.op, out))
                 \/ /\ out.sent /\ is_success(out.status)
                    /\ upd' = UpdateReturn(applied, RawHttpResult(upd.op, out))
                 \/ /\ ~out.sent
                    /\ \/ upd' = UpdateReturn(built, RawHttpResult(upd.op, out))
                       \/ upd' = UpdateReturn(applied,
                                              RawHttpResult(upd.op, out))
    /\ UNCHANGED <<callVars, conc, edit, svc, run, adds, cpr, fld>>

\* sleep(delay).await returns; attempt += 1 and the *_impl runs again
UpdateSleepDone ==
    /\ upd.pc = "sleep"
    /\ upd.op \in UpdateOps
    /\ upd' = [upd EXCEPT !.pc = "invoke", !.attempt = @ + 1]
    /\ UNCHANGED <<callVars, conc, edit, svc, run, adds, cpr, fld>>

\* ------------------------------------------------------------ update_issue
\* Arguments of update_issue kept by the model: title: Option<&str>,
\* body: Option<Option<&str>> and milestone_number:
\* Option<Option<MilestoneNumber>>.  "SomeNone" is Some(None).
IssueArgValues(a) ==
    IF a = "title" THEN {None, "new"}
    ELSE IF a = "body" THEN {None, "SomeNone", "new"}
    ELSE {None, "SomeNone", "M2"}

\* What the builder is given before send(): title when Some, body when
\* Some(Some(text)), milestone when Some(Some(number)); the else branches of
\* Some(None) are empty.
IssueUpdateFields(args) ==
    [k \in {f \in {"title", "body", "milestone"} :
               \/ f = "title" /\ args.title # None
               \/ f = "body" /\ args.body \notin {None, "SomeNone"}
               \/ f = "milestone" /\
                    args.milestone_number \notin {None, "SomeNone"}} |->
        IF k = "milestone" THEN args.milestone_number ELSE args[k]]

\* the issue as it is before the call: it has a milestone
IssueBefore == [title |-> "old", body |-> "old", milestone |-> "M1"]

\* update_issue is called with any arguments
UpdateIssueCall ==
    /\ upd.pc = "idle"
    /\ \E args \in [{"title", "body", "milestone_number"} ->
                        {None, "SomeNone", "new", "M2"}] :
            /\ \A a \in DOMAIN args : args[a] \in IssueArgValues(a)
            /\ upd' = [upd EXCEPT !.pc = "invoke_issue", !.op = "update_issue",
                                  !.args = args, !.server = IssueBefore]
    /\ UNCHANGED <<callVars, conc, edit, svc, run, adds, cpr, fld>>

\* One run of update_issue_impl: the builder is filled and sent through
\* octocrab (no token check); after a successful update the issue is read
\* back by get_issue_impl, whose error is the error of the invocation.
UpdateIssueAttempt ==
    /\ upd.pc = "invoke_issue"
    /\ LET body == IssueUpdateFields(upd.args)
           built == [upd EXCEPT !.body = body]
           applied == [built EXCEPT !.server = Patch(upd.server, body),
                                    !.sent = TRUE]
       IN \/ upd' = UpdateReturn(applied, Ok("issue"))
          \/ \E e \in OctocrabErrors :
                \/ upd' = UpdateReturn([built EXCEPT !.sent = TRUE],
                                       from_octocrab_error(e))
                \/ upd' = UpdateReturn(applied, from_octocrab_error(e))
    /\ UNCHANGED <<callVars, conc, edit, svc, run, adds, cpr, fld>>

\* sleep(delay).await returns in a call of update_issue
UpdateIssueSleepDone ==
    /\ upd.pc = "sleep"
    /\ upd.op = "update_issue"
    /\ upd' = [upd EXCEPT !.pc = "invoke_issue", !.attempt = @ + 1]
    /\ UNCHANGED <<callVars, conc, edit, svc, run, adds, cpr, fld>>

UpdateNext ==
    \/ UpdateCall
    \/ UpdateAttempt
    \/ UpdateSleepDone
    \/ UpdateIssueCall
    \/ UpdateIssueAttempt
    \/ UpdateIssueSleepDone

\* one call of update_milestone or update_label
SpecUpdate == Init /\ [][UpdateNext]_vars

\* ------------------------------------------------- the service wrappers
\* IssueService::add_assignees, PullRequestService::add_assignees and
\* PullRequestService::add_requested_reviewers: read the current list, split
\* the input, write the extended list. Each client call is itself a
\* retry_with_backoff call; the service sees only its Ok or Err.

MaxInput == 2

AddAssigneesOps == {"IssueService::add_assignees",
                    "PullRequestService::add_assignees"}

ServiceOps == AddAssigneesOps \cup
              {"PullRequestService::add_requested_reviewers"}

RECURSIVE SeqsUpTo(_)
SeqsUpTo(n) ==
    IF n = 0 THEN {<<>>}
    ELSE LET shorter == SeqsUpTo(n - 1) IN
         shorter \cup {Append(q, u) : q \in shorter, u \in Users}

\* the new_assignees / new_reviewers argument: any list, repeats included
ServiceInputs == SeqsUpTo(MaxInput)

\* the assignees or requested reviewers GitHub holds: a list without repeats
ServerLists ==
    {q \in SeqsUpTo(Cardinality(Users)) :
        \A i, j \in DOMAIN q : q[i] = q[j] => i = j}

\* Vec::contains
Contains(list, x) == \E i \in DOMAIN list : list[i] = x

\* the for loop over the input: push to skipped when the current list
\* contains the name, to added otherwise
RECURSIVE Filter(_, _, _, _)
Filter(new_assignees, current, added, skipped) ==
    IF new_assignees = <<>> THEN [added |-> added, skipped |-> skipped]
    ELSE IF Contains(current, Head(new_assignees))
         THEN Filter(Tail(new_assignees), current, added,
                     Append(skipped, Head(new_assignees)))
         ELSE Filter(Tail(new_assignees), current,
                     Append(added, Head(new_assignees)), skipped)

\* updated_assignees = current_assignees.clone() extended by added_assignees
updated_assigneesOnlyAdded(current_assignees, added_assignees) ==
    added_assignees

updated_assignees(current_assignees, added_assignees) ==
    current_assignees \o added_assignees

\* the write is made by the two add_assignees only, and only for a
\* non-empty added list; add_requested_reviewers has no write at all
NeedsWrite(o, added) == o \in AddAssigneesOps /\ added # <<>>

\* the list GitHub holds after it accepted a replacement list
RECURSIVE Dedup(_)
Dedup(list) ==
    IF list = <<>> THEN <<>>
    ELSE LET front == Dedup(SubSeq(list, 1, Len(list) - 1)) IN
         IF Contains(front, list[Len(list)]) THEN front
         ELSE Append(front, list[Len(list)])

\* what a failed write can leave behind: nothing changed, or, for the pull
\* request, the old assignees removed and the new ones not yet added
AfterFailedWrite(o, server) ==
    IF o = "PullRequestService::add_assignees" THEN {server, <<>>}
    ELSE {server}

ServiceCall ==
    /\ svc.pc = "idle"
    /\ \E o \in ServiceOps, input \in ServiceInputs, server \in ServerLists :
          svc' = [svc EXCEPT !.pc = "read", !.op = o, !.input = input,
                             !.server = server]
    /\ UNCHANGED <<callVars, conc, edit, upd, run, adds, cpr, fld>>

\* get_issue / get_pull_request, then the loop, up to the next await
ServiceRead ==
    /\ svc.pc = "read"
    /\ \/ svc' = [svc EXCEPT !.pc = "done", !.retkind = "Err"]
       \/ LET split == Filter(svc.input, svc.server, <<>>, <<>>)
              read == [svc EXCEPT !.read = svc.server,
                                  !.added = split.added,
                                  !.skipped = split.skipped]
          IN  svc' = IF NeedsWrite(svc.op, split.added)
                     THEN [read EXCEPT !.pc = "write"]
                     ELSE [read EXCEPT !.pc = "done", !.retkind = "Ok"]
    /\ UNCHANGED <<callVars, conc, edit, upd, run, adds, cpr, fld>>

\* another client changes the list between the read and the write
ServiceOther ==
    /\ svc.pc = "write"
    /\ \E server \in ServerLists :
          /\ server # svc.server
          /\ svc' = [svc EXCEPT !.server = server]
    /\ UNCHANGED <<callVars, conc, edit, upd, run, adds, cpr, fld>>

\* edit_assignees / edit_pull_request_assignees with the extended list
ServiceWrite ==
    /\ svc.pc = "write"
    /\ LET list == updated_assignees(svc.read, svc.added)
           sent == [svc EXCEPT !.writes = Append(svc.writes, list),
                               !.pc = "done"]
       IN  \/ svc' = [sent EXCEPT !.server = Dedup(list), !.retkind = "Ok"]
           \/ \E left \in AfterFailedWrite(svc.op, svc.server) :
                 svc' = [sent EXCEPT !.server = left, !.retkind = "Err"]
    /\ UNCHANGED <<callVars, conc, edit, upd, run, adds, cpr, fld>>

ServiceNext == ServiceCall \/ ServiceRead \/ ServiceOther \/ ServiceWrite

SpecService == Init /\ [][ServiceNext]_vars

\* --------------------------- two IssueService::add_assignees on one issue
\* Each call is the function of SpecService; its read (get_issue) and its
\* write (edit_issue_assignees, which replaces the list) are two awaits, and
\* the other call may run between them.

AddsCall ==
    /\ \A i \in {1, 2} : adds.call[i].pc = "idle"
    /\ \E server \in ServerLists, in1 \in ServiceInputs, in2 \in ServiceInputs :
          adds' = [server |-> server, before |-> server,
                   call |-> [i \in {1, 2} |->
                               [adds.call[i] EXCEPT
                                   !.pc = "read",
                                   !.input = IF i = 1 THEN in1 ELSE in2]]]
    /\ UNCHANGED <<callVars, conc, edit, upd, svc, run, cpr, fld>>

\* get_issue of call i, then its loop, up to its next await or its return
AddsRead ==
    \E i \in {1, 2} :
        /\ adds.call[i].pc = "read"
        /\ \/ adds' = [adds EXCEPT !.call[i].pc = "done",
                                    !.call[i].retkind = "Err"]
           \/ LET c == adds.call[i]
                  split == Filter(c.input, adds.server, <<>>, <<>>)
                  read == [c EXCEPT !.read = adds.server,
                                    !.added = split.added,
                                    !.skipped = split.skipped]
              IN  adds' = [adds EXCEPT !.call[i] =
                     IF NeedsWrite("IssueService::add_assignees", split.added)
                     THEN [read EXCEPT !.pc = "write"]
                     ELSE [read EXCEPT !.pc = "done", !.retkind = "Ok"]]
        /\ UNCHANGED <<callVars, conc, edit, upd, svc, run, cpr, fld>>

\* edit_issue_assignees of call i with the list it read followed by added
AddsWrite ==
    \E i \in {1, 2} :
        /\ adds.call[i].pc = "write"
        /\ LET c == adds.call[i]
               list == updated_assignees(c.read, c.added)
           IN  \/ adds' = [adds EXCEPT !.server = Dedup(list),
                                       !.call[i].pc = "done",
                                       !.call[i].retkind = "Ok"]
               \/ adds' = [adds EXCEPT !.call[i].pc = "done",
                                       !.call[i].retkind = "Err"]
        /\ UNCHANGED <<callVars, conc, edit, upd, svc, run, cpr, fld>>

AddsNext == AddsCall \/ AddsRead \/ AddsWrite

SpecAdds == Init /\ [][AddsNext]_vars

\* ------------------------------------------------- create_pull_request
\* create_pull_request_impl sends the create request and then runs
\* get_pull_request_impl (two requests) on the number it got back; the whole
\* of it is the closure retry_with_backoff invokes.

\* the running invocation of create_pull_request_impl returns res, having
\* failed (if it did) at the given stage
CreateReturn(c, res, stage) ==
    LET m == MatchResult("create_pull_request", MaxRetries(NoBudget),
                         c.attempt, res)
    IN [c EXCEPT !.pc = m.next, !.last = res.class, !.retkind = m.ret.kind,
                 !.failed_at = IF res.class = "Ok" THEN None ELSE stage]

\* the loop resuming at the fetch once a create has succeeded
LoopStartAfterCreated(c) ==
    IF c.failed_at \in {"fetch", "comments"} THEN "fetch" ELSE "create"

\* `loop { match execute_operation().await`: the closure runs from its first
\* statement, the create request
LoopStart(c) == "create"

CreateCall ==
    /\ cpr.pc = "idle"
    /\ cpr' = [cpr EXCEPT !.pc = "create", !.calls = 1]
    /\ UNCHANGED <<callVars, conc, edit, upd, svc, run, adds, fld>>

\* pr_builder.send(): the pull request is created, or the request fails
CreateSend ==
    /\ cpr.pc = "create"
    /\ LET sent == [cpr EXCEPT !.creates = @ + 1]
       IN \/ cpr' = [sent EXCEPT !.pc = "fetch"]
          \/ \E e \in OctocrabErrors :
                cpr' = CreateReturn(sent, from_octocrab_error(e), "create")
    /\ UNCHANGED <<callVars, conc, edit, upd, svc, run, adds, fld>>

\* get_pull_request_impl, first request: the created pull request is read
CreateFetchPull ==
    /\ cpr.pc = "fetch"
    /\ LET sent == [cpr EXCEPT !.fetches = @ + 1]
       IN \/ cpr' = [sent EXCEPT !.pc = "comments"]
          \/ \E e \in OctocrabErrors :
                cpr' = CreateReturn(sent, from_octocrab_error(e), "fetch")
    /\ UNCHANGED <<callVars, conc, edit, upd, svc, run, adds, fld>>

\* get_pull_request_impl, second request: its comments are listed
CreateListComments ==
    /\ cpr.pc = "comments"
    /\ \/ cpr' = CreateReturn(cpr, Ok("pull_request"), "comments")
       \/ \E e \in OctocrabErrors :
             cpr' = CreateReturn(cpr, from_octocrab_error(e), "comments")
    /\ UNCHANGED <<callVars, conc, edit, upd, svc, run, adds, fld>>

\* sleep(delay).await returns; attempt += 1 and the closure runs again
CreateSleepDone ==
    /\ cpr.pc = "sleep"
    /\ cpr' = [cpr EXCEPT !.pc = LoopStart(cpr), !.attempt = @ + 1,
                          !.calls = @ + 1]
    /\ UNCHANGED <<callVars, conc, edit, upd, svc, run, adds, fld>>

CreateNext ==
    \/ CreateCall
    \/ CreateSend
    \/ CreateFetchPull
    \/ CreateListComments
    \/ CreateSleepDone

SpecCreate == Init /\ [][CreateNext]_vars

\* ------------------------------------- update of a project item field
\* ProjectService::update_project_item_field matches on the value and calls
\* the client method of the variant, each of which calls
\* update_project_item_field_value; that function can also be called
\* directly, with any variant.

FieldEntries == {"ProjectService::update_project_item_field",
                 "GitHubClient::update_project_item_field_value"}

\* the match of the service handing every variant on to the client
ServiceArmAlwaysClient(value) == "client"

\* match value { .. }: the arm of each variant
ServiceArm(value) == IF value = "MultiSelect" THEN "reject" ELSE "client"

\* the running invocation of update_project_item_field_value_impl returns res
FieldReturn(f, res) ==
    LET m == MatchResult("update_project_item_field_value",
                         MaxRetries(NoBudget), f.attempt, res)
    IN [f EXCEPT !.pc = m.next, !.last = res.class, !.retkind = m.ret.kind,
                 !.nsleeps = IF m.next = "sleep" THEN @ + 1 ELSE @]

FieldCall ==
    /\ fld.pc = "idle"
    /\ \E en \in FieldEntries, v \in FieldValueKinds :
          fld' = [fld EXCEPT
                    !.entry = en, !.value = v,
                    !.pc = IF en = "ProjectService::update_project_item_field"
                           THEN "match" ELSE "invoke",
                    !.reached_client =
                        (en = "GitHubClient::update_project_item_field_value")]
    /\ UNCHANGED <<callVars, conc, edit, upd, svc, run, adds, cpr>>

\* the match of the service: MultiSelect returns the anyhow! error, every
\* other variant calls the client
FieldServiceMatch ==
    /\ fld.pc = "match"
    /\ fld' = IF ServiceArm(fld.value) = "reject"
              THEN [fld EXCEPT !.pc = "done", !.retkind = "Err"]
              ELSE [fld EXCEPT !.pc = "invoke", !.reached_client = TRUE]
    /\ UNCHANGED <<callVars, conc, edit, upd, svc, run, adds, cpr>>

\* one run of update_project_item_field_value_impl
FieldAttempt ==
    /\ fld.pc = "invoke"
    /\ LET called == [fld EXCEPT !.calls = @ + 1]
           sent == [called EXCEPT !.requests = @ + 1]
       IN IF fld.value = "MultiSelect"
          THEN fld' = FieldReturn(called, MultiSelectUnsupported)
          ELSE \/ \E e \in OctocrabErrors :
                    fld' = FieldReturn(sent, from_octocrab_error(e))
               \/ \E r \in ResponsesOf("update_project_item_field_value") :
                    fld' = FieldReturn(sent,
                              GraphqlResult("update_project_item_field_value", r))
    /\ UNCHANGED <<callVars, conc, edit, upd, svc, run, adds, cpr>>

\* sleep(delay).await returns; attempt += 1
FieldSleepDone ==
    /\ fld.pc = "sleep"
    /\ fld' = [fld EXCEPT !.pc = "invoke", !.attempt = @ + 1]
    /\ UNCHANGED <<callVars, conc, edit, upd, svc, run, adds, cpr>>

FieldNext ==
    \/ FieldCall
    \/ FieldServiceMatch
    \/ FieldAttempt
    \/ FieldSleepDone

SpecField == Init /\ [][FieldNext]_vars

\* ----------------------------------- one call, arithmetic at machine width
\* The delay is computed in u64 from the u32 attempt counter.  Whether an
\* overflow panics or wraps is decided by the build (overflow-checks), which
\* the sources do not fix.

MaxRunBudget == 65

\* budgets on both sides of the widths of the shift and of the product
RunBudgets == {NoBudget} \cup
              {SomeBudget(n) : n \in {0, 1, 2, 57, 58, 59, 64, MaxRunBudget}}

\* 1u64 << n for n in 0..63, as limbs
ShlOne(n) == [k \in 1..4 |-> IF k = (n \div 16) + 1 THEN 2 ^ (n % 16) ELSE 0]

\* the carry into limb k of x * m (k = 5: the carry out of the u64)
RECURSIVE MulCarry(_, _, _)
MulCarry(x, m, k) ==
    IF k = 1 THEN 0
    ELSE (x[k - 1] * m + MulCarry(x, m, k - 1)) \div 65536

\* x * m modulo 2^32: the product of a 32-bit multiplication
MulU32(x, m) ==
    [k \in 1..4 |-> IF k > 2 THEN 0
                    ELSE (x[k] * m + MulCarry(x, m, k)) % 65536]

\* x * m modulo 2^64
Mul(x, m) == [k \in 1..4 |-> (x[k] * m + MulCarry(x, m, k)) % 65536]

\* `100 * (1 << attempt)`: with overflow checks a shift by 64 or more and a
\* product beyond u64 panic; without them the shift amount is taken modulo
\* 64 and the product modulo 2^64
DelayU64(att, overflow_checks) ==
    LET shifted == ShlOne(att % 64) IN
    IF overflow_checks /\ (att >= 64 \/ MulCarry(shifted, 100, 5) # 0)
    THEN [panic |-> TRUE, ms |-> <<0, 0, 0, 0>>]
    ELSE [panic |-> FALSE, ms |-> Mul(shifted, 100)]

RunCall ==
    /\ run.pc = "idle"
    /\ \E b \in RunBudgets, oc \in BOOLEAN :
          run' = [run EXCEPT !.pc = "invoke", !.budget = b,
                             !.overflow_checks = oc]
    /\ UNCHANGED <<callVars, conc, edit, upd, svc, adds, cpr, fld>>

\* execute_operation().await completes with a result of any class and the
\* call runs on to its return, to its sleep, or panics computing the delay
RunInvoke ==
    /\ run.pc = "invoke"
    /\ \E class \in {"Ok", "NonRetryable", "Retryable", "RateLimit"} :
          LET called == [run EXCEPT !.calls = @ + 1, !.last = class]
              d == DelayU64(run.attempt, run.overflow_checks)
          IN  run' =
                IF class = "Ok"
                THEN [called EXCEPT !.pc = "done", !.retkind = "Ok"]
                ELSE IF class = "NonRetryable"
                        \/ Exhausted(run.attempt, MaxRetries(run.budget))
                THEN [called EXCEPT !.pc = "done", !.retkind = "Err"]
                ELSE IF d.panic
                THEN [called EXCEPT !.pc = "panicked"]
                ELSE [called EXCEPT !.pc = "sleep", !.ms = d.ms,
                                    !.nsleeps = @ + 1]
    /\ UNCHANGED <<callVars, conc, edit, upd, svc, adds, cpr, fld>>

\* sleep(delay).await completes: attempt += 1
RunSleepDone ==
    /\ run.pc = "sleep"
    /\ run' = [run EXCEPT !.pc = "invoke", !.attempt = @ + 1]
    /\ UNCHANGED <<callVars, conc, edit, upd, svc, adds, cpr, fld>>

RunNext == RunCall \/ RunInvoke \/ RunSleepDone

\* every invocation and every sleep that has started completes
SpecRun ==
    /\ Init /\ [][RunNext]_vars
    /\ WF_vars(RunInvoke)
    /\ WF_vars(RunSleepDone)

\* ------------------------------------------------------------------ claims
\* limit as the claims define it: the supplied max_retry_count, or 15
ClaimedLimit ==
    IF max_retry_count.some THEN max_retry_count.value ELSE 15

RECURSIVE SumSeq(_)
SumSeq(q) == IF q = <<>> THEN 0 ELSE Head(q) + SumSeq(Tail(q))

\* invocations that have returned (the one in flight between fetch and
\* mutation is counted by calls but has no result yet)
Finished == IF pc = "mutate" THEN calls - 1 ELSE calls

\* C1: once an invocation has returned NonRetryable, on the first attempt or
\* after retryable failures, for any name and any budget, retry_with_backoff
\* has returned an error that carries the operation name, no sleep followed
\* that failure (one sleep per earlier failure only), and neither the number
\* of invocations nor the sleeps change afterwards.
C1_NonRetryableReturnsAtOnce ==
    /\ [](last.class = "NonRetryable" =>
            /\ pc = "done"
            /\ ret.kind = "Err"
            /\ ret.name = operation_name
            /\ Len(sleeps) = calls - 1)
    /\ [][last.class = "NonRetryable" =>
            (calls' = calls /\ sleeps' = sleeps /\ ret' = ret)]_vars

C1_Witness ==
    /\ last.class = "NonRetryable"
    /\ pc = "done"
    /\ nRetryable > 0 /\ nRateLimit > 0
    /\ max_retry_count = NoBudget
    /\ ret.kind = "Err"

\* C2: when every invocation so far returned Retryable or RateLimit, in any
\* mix, the executor has not given up before limit+1 invocations, never makes
\* more, and on return the error is the exhausted-budget one whose attempt
\* count is limit+1 after exactly limit+1 invocations.
C2_AllRetryableExhaustsBudget ==
    (Finished > 0 /\ nRetryable + nRateLimit = Finished) =>
        /\ calls <= ClaimedLimit + 1
        /\ (pc = "done") <=> (Finished = ClaimedLimit + 1)
        /\ pc = "done" =>
            /\ ret.kind = "Err"
            /\ ret.attempts = ClaimedLimit + 1

C2_Witness ==
    /\ pc = "done"
    /\ nRetryable + nRateLimit = calls
    /\ nRetryable > 0 /\ nRateLimit > 0
    /\ max_retry_count = NoBudget
    /\ calls = 16
    /\ ret.attempts = 16

\* C3: when the operation returned Retryable k times (0 <= k <= limit) and
\* then Ok(v), it was invoked k+1 times, Ok(v) is returned, and the sleeps
\* were 100ms * 2^i for i = 0..k-1, so their sum is 100ms * (2^k - 1); the
\* executor never gives up while at most limit failures have happened.
C3_RetryThenSuccess ==
    /\ (pc = "done" /\ last.class = "Ok" /\ nRateLimit = 0) =>
        /\ nRetryable <= ClaimedLimit
        /\ calls = nRetryable + 1
        /\ ret.kind = "Ok" /\ ret.value = last.value
        /\ sleeps = [i \in 1..nRetryable |-> 100 * (2 ^ (i - 1))]
        /\ SumSeq(sleeps) = 100 * ((2 ^ nRetryable) - 1)
    /\ (pc = "done" /\ last.class = "Retryable") =>
        nRetryable + nRateLimit > ClaimedLimit

C3_Witness ==
    /\ op = ClosureOp
    /\ operation_name = "update_milestone"
    /\ max_retry_count = SomeBudget(3)
    /\ pc = "done"
    /\ nRetryable = 2 /\ nRateLimit = 0
    /\ calls = 3
    /\ ret.kind = "Ok"
    /\ sleeps = <<100, 200>>

\* C4: when the first invocation returns Ok(v), retry_with_backoff has
\* returned Ok(v) after that one invocation and has not slept.
C4_FirstOkReturnsAtOnce ==
    (calls = 1 /\ last.class = "Ok") =>
        /\ pc = "done"
        /\ ret.kind = "Ok"
        /\ ret.value = last.value
        /\ sleeps = <<>>
        /\ attempt = 0

C4_Witness ==
    /\ calls = 1
    /\ last = Ok("v2")
    /\ ret.kind = "Ok" /\ ret.value = "v2"
    /\ pc = "done"

\* C5: whatever the results, one call of retry_with_backoff invokes the
\* operation at most limit+1 times.
C5_AtMostLimitPlusOne ==
    calls <= ClaimedLimit + 1

C5_Witness ==
    /\ max_retry_count = NoBudget
    /\ calls = 16
    /\ nRetryable > 0 /\ nRateLimit > 0
    /\ last.class = "Ok"

\* C6: an executor fed the same results with RateLimit and Retryable swapped
\* at any positions is at the same place, has made as many invocations, has
\* slept the same delays and returns the same kind (Ok or Err).
C6_RateLimitLikeRetryable ==
    /\ twin.pc = (IF pc \in {"idle", "mutate"} THEN "invoke" ELSE pc)
    /\ twin.attempt = attempt
    /\ twin.calls = Finished
    /\ twin.sleeps = sleeps
    /\ twin.retkind = ret.kind

C6_Witness ==
    /\ pc = "done"
    /\ nRetryable >= 2 /\ nRateLimit >= 2
    /\ twin.calls = calls
    /\ Len(twin.sleeps) >= 4
    /\ ret.kind = "Ok"

\* the class the raw-HTTP rule of the specification gives an outcome
ClaimedHttpClass(out) ==
    IF ~out.sent THEN "Retryable"
    ELSE IF out.status \in 200..299 THEN "Ok"
    ELSE IF out.status = 429 THEN "RateLimit"
    ELSE IF out.status \in 500..599 THEN "Retryable"
    ELSE "NonRetryable"

\* C7 as stated: in every raw-HTTP operation the status alone decides the
\* class (2xx success, 429 RateLimit, 5xx Retryable, anything else
\* NonRetryable) and a send failure is Retryable.
C7_StatusAloneDecides ==
    (op \in RawHttpOps /\ observed.kind = "http") =>
        last.class = ClaimedHttpClass(observed.http)

\* C7 amended: as stated, except that in the four operations that read the
\* body (create/update milestone, create/update label) a 2xx whose body does
\* not deserialize is NonRetryable; delete_milestone and delete_label never
\* read the body, so there every 2xx is success.
C7_StatusDecidesButForUnparsedBody ==
    (op \in RawHttpOps /\ observed.kind = "http") =>
        last.class =
            IF /\ observed.http.sent
               /\ observed.http.status \in 200..299
               /\ ~observed.http.parses
               /\ op \in {"create_milestone", "update_milestone",
                          "create_label", "update_label"}
            THEN "NonRetryable"
            ELSE ClaimedHttpClass(observed.http)

C7_Witness ==
    /\ op = "update_label"
    /\ observed.kind = "http"
    /\ observed.http.sent
    /\ observed.http.status = 503
    /\ last.class = "Retryable"
    /\ nRateLimit > 0
    /\ pc = "sleep"

\* C8: create_milestone or create_label answered with 404, or any other 4xx
\* but 429, ends at once: that invocation sent one request, no sleep follows
\* it, the call returns an error whose text carries the status, and when the
\* server answers so from the start there was exactly one invocation, one
\* request and no sleep at all.
C8_ClientErrorFailsImmediately ==
    (/\ op \in {"create_milestone", "create_label"}
     /\ observed.kind = "http"
     /\ observed.http.sent
     /\ observed.http.status \in 400..499
     /\ observed.http.status # 429) =>
        /\ pc = "done"
        /\ requests = 1
        /\ Len(sleeps) = calls - 1
        /\ calls = nRetryable + nRateLimit + 1
        /\ ret.kind = "Err"
        /\ ret.name = op
        /\ ret.cause.kind = "GitHub API error"
        /\ ret.cause.status = observed.http.status

C8_Witness ==
    /\ op = "create_label"
    /\ observed.kind = "http"
    /\ observed.http.status = 404
    /\ calls = 1
    /\ requests = 1
    /\ sleeps = <<>>
    /\ pc = "done"
    /\ ret.kind = "Err"
    /\ ret.cause.status = 404

\* C9 as stated: without a token every remote operation, whatever its adapter,
\* fails NonRetryable before any request is sent, is invoked once and never
\* sleeps.
C9_NoTokenNoRequest ==
    (token = None /\ op \in ClientOps /\ calls > 0) =>
        /\ requests = 0
        /\ calls = 1
        /\ sleeps = <<>>
        /\ Finished = 1 => last.class = "NonRetryable"

\* C9 amended: without a token every raw-HTTP operation (create, update and
\* delete of milestones and labels) fails NonRetryable before any request is
\* sent, is invoked once and never sleeps; the typed-client operations and the
\* fetch of the fetch-then-mutate GraphQL operations make no token check and
\* send their request.
C9_NoTokenNoRawHttpRequest ==
    /\ (token = None /\ op \in RawHttpOps /\ calls > 0) =>
        /\ requests = 0
        /\ observed.kind = "no_request"
        /\ calls = 1
        /\ sleeps = <<>>
        /\ last.class = "NonRetryable"
        /\ pc = "done"
        /\ ret.kind = "Err"
    /\ (token = None /\ op \in TypedOps \cup CompositeOps /\ calls > 0) =>
        requests >= 1

C9_Witness ==
    /\ token = None
    /\ op = "delete_milestone"
    /\ calls = 1
    /\ requests = 0
    /\ pc = "done"
    /\ last.class = "NonRetryable"
    /\ last.msg.kind = "GitHub token not configured"

\* C10: in delete_issue, close_pull_request, remove_issue_milestone,
\* remove_pull_request_milestone and update_project_item_field_value a
\* response with a data key and no errors key is success, and a response with
\* an errors array and no data key is NonRetryable, carrying the message of
\* the first entry of errors when that entry has one.
C10_GraphqlClassification ==
    (/\ op \in {"delete_issue", "close_pull_request", "remove_issue_milestone",
                "remove_pull_request_milestone",
                "update_project_item_field_value"}
     /\ observed.kind = "graphql") =>
        /\ (observed.gql.data /\ observed.gql.errors.shape = "absent") =>
                last.class = "Ok" /\ ret.kind = "Ok"
        /\ (/\ ~observed.gql.data
            /\ observed.gql.errors.shape \in {"empty", "no_message", "array"}) =>
                last.class = "NonRetryable" /\ ret.kind = "Err"
        /\ (~observed.gql.data /\ observed.gql.errors.shape = "array") =>
                last.msg.text = observed.gql.errors.message

C10_Witness ==
    /\ op = "close_pull_request"
    /\ observed.kind = "graphql"
    /\ ~observed.gql.data
    /\ observed.gql.errors = [shape |-> "array", message |-> "X"]
    /\ last.class = "NonRetryable"
    /\ last.msg.text = "X"
    /\ pc = "done"

\* C11 as stated: at every GraphQL call site a response that has both a data
\* key and an errors entry is success.
C11_DataPresentIsSuccess ==
    (/\ op \in GraphqlOps \cup ProjectAddOps
     /\ observed.kind = "graphql"
     /\ observed.gql.data
     /\ observed.gql.errors.shape # "absent") =>
        last.class = "Ok" /\ ret.kind = "Ok"

\* C11 amended: add_issue_to_project and add_pull_request_to_project treat a
\* response whose data holds the id of the new item as success whatever its
\* errors entry, and as NonRetryable when data holds no such id; delete_issue,
\* remove_issue_milestone, close_pull_request, remove_pull_request_milestone
\* and update_project_item_field_value treat a response that has both a data
\* key and an errors key as NonRetryable.
C11_DataWithErrorsPerCallSite ==
    (/\ observed.kind = "graphql"
     /\ observed.gql.data
     /\ observed.gql.errors.shape # "absent") =>
        /\ op \in {"add_issue_to_project", "add_pull_request_to_project"} =>
            IF observed.gql.item
            THEN last.class = "Ok" /\ ret.kind = "Ok"
            ELSE last.class = "NonRetryable" /\ ret.kind = "Err"
        /\ op \in {"delete_issue", "remove_issue_milestone",
                    "close_pull_request", "remove_pull_request_milestone",
                    "update_project_item_field_value"} =>
            last.class = "NonRetryable" /\ ret.kind = "Err"

C11_Witness ==
    /\ op = "add_issue_to_project"
    /\ observed.kind = "graphql"
    /\ observed.gql.data /\ observed.gql.item
    /\ observed.gql.errors = [shape |-> "array", message |-> "X"]
    /\ last.class = "Ok"
    /\ ret.kind = "Ok" /\ ret.value = "item_id"
    /\ pc = "done"

\* C12: at every GraphQL call site a response without data whose errors array
\* carries a message that tells of rate limiting is classified RateLimit and
\* the executor goes on to back off (unless the budget is spent), and one
\* whose message tells of anything else is classified NonRetryable.
C12_GraphqlRateLimitIsRetried ==
    (/\ op \in GraphqlOps \cup ProjectAddOps
     /\ observed.kind = "graphql"
     /\ ~observed.gql.data
     /\ observed.gql.errors.shape = "array") =>
        IF observed.gql.errors.message = "API rate limit exceeded"
        THEN /\ last.class = "RateLimit"
             /\ pc = "sleep" \/ attempt >= ClaimedLimit
        ELSE last.class = "NonRetryable" /\ pc = "done"

\* the six fetch-then-mutate composites, as the claims list them
ClaimedComposites ==
    {"delete_issue", "remove_issue_milestone", "close_pull_request",
     "remove_pull_request_milestone", "add_issue_to_project",
     "add_pull_request_to_project"}

\* a step that starts an invocation starts it with the fetch; a step that
\* sends a mutation is the second request of an invocation that fetched an id,
\* and the mutation carries that id
FetchThenMutateStep ==
    /\ calls' = calls + 1 =>
          (pc = "invoke" /\ requests' = 1 /\ observed'.kind = "fetch")
    /\ ((requests' = 2 /\ requests # 2) \/ mutation_id' # mutation_id) =>
          (/\ pc = "mutate"
           /\ calls' = calls
           /\ requests = 1 /\ requests' = 2
           /\ mutation_id' = node_id)

\* C13: in delete_issue, remove_issue_milestone, close_pull_request,
\* remove_pull_request_milestone, add_issue_to_project and
\* add_pull_request_to_project every invocation, the first and each retry,
\* starts with the fetch of the node id; a mutation is sent only by an
\* invocation that has fetched an id, as its second request, and carries the
\* id that same invocation fetched.
C13_EachAttemptRefetches ==
    /\ []((op \in ClaimedComposites /\ pc = "mutate") =>
              (/\ node_id \in {"N1", "N2"}
               /\ requests = 1
               /\ observed.kind = "fetch"))
    /\ [][(op \in ClaimedComposites) => FetchThenMutateStep]_vars

C13_Witness ==
    /\ op = "delete_issue"
    /\ calls = 3 /\ attempt = 2
    /\ nRetryable = 2
    /\ pc = "mutate"
    /\ requests = 1
    /\ node_id = "N1"
    /\ mutation_id = "N2"

\* the class the typed adapter gives an octocrab error
ClaimedOctocrabClass(e) ==
    IF e = "rate_limit" THEN "RateLimit"
    ELSE IF e \in {"network", "server_error"} THEN "Retryable"
    ELSE "NonRetryable"

\* the last invocation of a composite ended in its fetch: the fetch returned
\* an error, or a pull request without a node id
FetchFailed ==
    /\ op \in ClaimedComposites
    /\ observed.kind = "fetch"
    /\ pc # "mutate"

\* C14 as stated: the mutation is about to be sent only when the fetch of the
\* same invocation succeeded; an invocation whose fetch failed sent the fetch
\* only and returned the fetch's error with its class; and after a
\* NonRetryable fetch failure the operation is over and no mutation was ever
\* sent by it.
C14_NonRetryableFetchNoMutationEver ==
    /\ (op \in ClaimedComposites /\ pc = "mutate") =>
            observed = ObservedOk("fetch") /\ node_id # None
    /\ FetchFailed =>
        /\ requests = 1
        /\ observed.err # "" =>
              /\ last.class = ClaimedOctocrabClass(observed.err)
              /\ last.class # "RateLimit" => last.msg.text = observed.err
        /\ last.class = "NonRetryable" =>
              /\ pc = "done" /\ ret.kind = "Err"
              /\ mutation_id = None

\* after a fetch failure nothing more is sent before the next invocation
\* starts, and nothing at all once the operation has returned
NothingSentAfterFetchFailure ==
    FetchFailed =>
        /\ pc = "done" => (requests' = requests /\ calls' = calls)
        /\ mutation_id' = mutation_id

\* C14 amended: as stated, except for the last part: a NonRetryable fetch
\* failure ends the whole operation with no mutation sent in that attempt or
\* after it, and with none sent at all when it is the first attempt; an
\* earlier attempt whose fetch succeeded and whose mutation failed retryably
\* has sent its mutation.
C14_FetchFailureEndsAttemptUnchanged ==
    /\ []((op \in ClaimedComposites /\ pc = "mutate") =>
              (observed = ObservedOk("fetch") /\ node_id # None))
    /\ [](FetchFailed =>
              (/\ requests = 1
               /\ observed.err # "" =>
                     (/\ last.class = ClaimedOctocrabClass(observed.err)
                      /\ last.class # "RateLimit" =>
                            last.msg.text = observed.err)
               /\ last.class = "NonRetryable" =>
                     (/\ pc = "done" /\ ret.kind = "Err"
                      /\ calls = 1 => mutation_id = None)))
    /\ [][NothingSentAfterFetchFailure]_vars

C14_Witness ==
    /\ op = "remove_issue_milestone"
    /\ calls = 2
    /\ observed = ObservedErr("fetch", "not_found")
    /\ requests = 1
    /\ last.class = "NonRetryable"
    /\ mutation_id = "N1"
    /\ pc = "done"
    /\ ret.kind = "Err"

\* C15: every public remote operation of GitHubClient runs inside
\* retry_with_backoff: a request is sent only by an invocation the executor
\* made, a finished operation went through at least one classified
\* invocation, and an error it returns is one of the two errors the executor
\* builds, naming the operation.
C15_EveryOperationThroughExecutor ==
    (op # None /\ op # ClosureOp) =>
        /\ requests > 0 => calls > 0
        /\ pc = "done" =>
              /\ calls >= 1
              /\ last.class \in {"Ok", "NonRetryable", "Retryable", "RateLimit"}
        /\ (pc = "done" /\ ret.kind = "Err") =>
              /\ ret.fmt \in {"Operation {} failed: {}",
                               "Operation {} failed after {} attempts: {}"}
              /\ ret.name = op

\* retry_with_backoff has returned an error
TerminalError ==
    /\ pc = "done"
    /\ calls >= 1
    /\ ret.kind = "Err"

\* C16 as stated: every error retry_with_backoff returns, after a
\* NonRetryable failure as after a spent budget, carries the operation name,
\* the number of invocations made and the message of the last error.
C16_TerminalErrorHasNameAttemptsCause ==
    TerminalError =>
        /\ ret.name = operation_name
        /\ ret.fmt = "Operation {} failed after {} attempts: {}"
        /\ ret.attempts = calls
        /\ last.class # "RateLimit" => ret.cause = last.msg

\* C16 amended: every error retry_with_backoff returns carries the operation
\* name and the message of the last error; the one returned on a spent
\* budget also carries the number of invocations made, the one returned on a
\* NonRetryable failure carries no count.
C16_AttemptsOnlyWhenBudgetSpent ==
    TerminalError =>
        /\ ret.name = operation_name
        /\ last.class # "RateLimit" => ret.cause = last.msg
        /\ last.class \in {"Retryable", "RateLimit"} =>
              /\ ret.fmt = "Operation {} failed after {} attempts: {}"
              /\ ret.attempts = calls
        /\ last.class = "NonRetryable" =>
              /\ ret.fmt = "Operation {} failed: {}"
              /\ ret.attempts = 0

C16_Witness ==
    /\ op = ClosureOp
    /\ operation_name = "test_operation"
    /\ max_retry_count = SomeBudget(2)
    /\ pc = "done"
    /\ calls = 3
    /\ last.class = "Retryable"
    /\ ret.kind = "Err"
    /\ ret.name = "test_operation"
    /\ ret.attempts = 3
    /\ ret.cause.text = "network blip"

\* what call i must look like if only its own arguments and the results of
\* its own closure decide: as many invocations as results, every result but
\* the last a transient failure, one sleep of 100ms * 2^(j-1) after the j-th
\* failure that did not end the call, the counter at the number of sleeps
\* finished, and the return value that of the last result
DeterminedByOwnResults(c) ==
    LET n == Len(c.results)
        limit == c.budget.value
        over == /\ n > 0
                /\ \/ c.results[n].class \in {"Ok", "NonRetryable"}
                   \/ n = limit + 1
    IN /\ n <= limit + 1
       /\ \A j \in 1..(n - 1) : c.results[j].class \in {"Retryable", "RateLimit"}
       /\ (c.pc = "done") <=> over
       /\ c.sleeps = [j \in 1..(IF over THEN n - 1 ELSE n) |-> 100 * (2 ^ (j - 1))]
       /\ c.attempt = (IF c.pc = "sleep" \/ c.pc = "done" THEN n - 1 ELSE n)
       /\ c.pc = "done" =>
             /\ c.ret.kind = (IF c.results[n].class = "Ok" THEN "Ok" ELSE "Err")
             /\ c.ret.value = c.results[n].value
             /\ c.ret.kind = "Err" => c.ret.name = c.name
             /\ c.results[n].class \in {"Retryable", "RateLimit"} =>
                   c.ret.attempts = n

\* C17: of two calls of retry_with_backoff interleaved at their await points,
\* each one's invocations, attempt counter, sleeps and return value are
\* decided by its own arguments and the results of its own closure, whatever
\* the other call has done, and a step of one call changes nothing of the
\* other.
C17_ConcurrentCallsIndependent ==
    /\ [](\A i \in ConcIds : conc[i].pc # "idle" =>
                                DeterminedByOwnResults(conc[i]))
    /\ [][\A i \in ConcIds :
             conc'[i] # conc[i] => conc'[3 - i] = conc[3 - i]]_vars

C17_Witness ==
    /\ conc[1].pc = "sleep"
    /\ conc[1].attempt = 1
    /\ conc[1].sleeps = <<100, 200>>
    /\ conc[2].pc = "done"
    /\ conc[2].budget = SomeBudget(1)
    /\ Len(conc[2].results) = 2
    /\ conc[2].ret.attempts = 2

\* the class of a raw-HTTP outcome, from the operation and the outcome alone
ClassOfHttp(o, out) ==
    IF ~out.sent THEN "Retryable"
    ELSE IF out.status = 429 THEN "RateLimit"
    ELSE IF out.status \in 500..599 THEN "Retryable"
    ELSE IF out.status \notin 200..299 THEN "NonRetryable"
    ELSE IF ~out.parses /\ o \notin {"delete_milestone", "delete_label"}
         THEN "NonRetryable"
    ELSE "Ok"

\* the class of a GraphQL response, from the operation and the response alone
ClassOfGraphql(o, r) ==
    IF o \in {"add_issue_to_project", "add_pull_request_to_project"}
    THEN (IF r.data /\ r.item THEN "Ok" ELSE "NonRetryable")
    ELSE (IF r.data /\ r.errors.shape = "absent" THEN "Ok" ELSE "NonRetryable")

\* an invocation has just returned after observing what the invocation
\* before it observed
SameObservationAgain ==
    /\ op \in ClientOps
    /\ Finished >= 1
    /\ Finished' = Finished + 1
    /\ observed' = observed
    /\ observed.kind \in {"http", "graphql"}

\* C18: the class an invocation returns is decided by the operation and the
\* response it observed and by nothing else: at every attempt number and
\* after every history of earlier results a raw-HTTP outcome and a GraphQL
\* response get the class a function of the response alone gives them, and an
\* invocation that observes what the one before it observed returns the same
\* class and message.
C18_ClassificationStateless ==
    /\ []((op \in RawHttpOps /\ observed.kind = "http") =>
              last.class = ClassOfHttp(op, observed.http))
    /\ []((op \in ClientOps /\ observed.kind = "graphql") =>
              last.class = ClassOfGraphql(op, observed.gql))
    /\ [][SameObservationAgain =>
              (last'.class = last.class /\ last'.msg = last.msg)]_vars

C18_Witness ==
    /\ op = "create_milestone"
    /\ attempt = 3
    /\ calls = 4
    /\ observed.kind = "http"
    /\ observed.http.status = 503
    /\ last.class = "Retryable"
    /\ nRetryable = 4
    /\ pc = "sleep"

\* C19 as stated: the sleep after the failed attempt with index a lasts
\* 100ms * 2^a, and under the default budget of 15 the sleep before the last
\* attempt lasts tens of seconds (at least 10 s, less than 100 s).
C19_LastDelayTensOfSeconds ==
    /\ \A i \in 1..Len(sleeps) : sleeps[i] = 100 * (2 ^ (i - 1))
    /\ (~max_retry_count.some /\ Len(sleeps) = 15) =>
            (sleeps[15] >= 10000 /\ sleeps[15] < 100000)

\* C19 amended: the sleep after the failed attempt with index a lasts
\* 100ms * 2^a, and under the default budget of 15 the sleep before the last
\* attempt (after the failure with index 14) lasts 100ms * 2^14 =
\* 1,638,400 ms, about 27 minutes; no sleep follows the last attempt.
C19_DelayDoublesToTwentySevenMinutes ==
    /\ \A i \in 1..Len(sleeps) : sleeps[i] = 100 * (2 ^ (i - 1))
    /\ Len(sleeps) = (IF pc = "sleep" THEN attempt + 1 ELSE attempt)
    /\ Len(sleeps) <= ClaimedLimit
    /\ (~max_retry_count.some /\ Len(sleeps) = 15) =>
            /\ sleeps[15] = 1638400
            /\ attempt \in {14, 15}

C19_Witness ==
    /\ max_retry_count = NoBudget
    /\ op = "create_label"
    /\ Len(sleeps) = 15
    /\ sleeps[1] = 100
    /\ sleeps[15] = 1638400
    /\ attempt = 15
    /\ calls = 16
    /\ pc = "done"

\* C20: when edit_pull_request_assignees has returned Ok, nobody else having
\* touched the pull request, the assignees of the pull request are exactly
\* new_assignees, whatever failures and retries came between the fetch, the
\* removal and the addition, steps that took effect and reported a transient
\* failure included.
C20_OkMeansAssigneesReplaced ==
    (edit.pc = "done" /\ edit.retkind = "Ok") => edit.server = edit.new

C20_Witness ==
    /\ edit.pc = "done"
    /\ edit.retkind = "Ok"
    /\ edit.lost
    /\ edit.attempt >= 2
    /\ edit.current = {"u2"}
    /\ edit.new = {"u2"}
    /\ edit.server = {"u2"}

\* C21: the body update_milestone and update_label send has exactly the keys
\* of the arguments that are Some, each with the value passed; every field
\* whose argument is None is on the server as it was before the call; and
\* when every argument is None the body is the empty object.
C21_BodyHasExactlySomeFields ==
    (upd.op \in {"update_milestone", "update_label"} /\ upd.last # "none") =>
        /\ DOMAIN upd.body =
              {(IF a = "new_name" THEN "name" ELSE a) :
                    a \in {x \in DOMAIN upd.args : upd.args[x] # None}}
        /\ \A a \in DOMAIN upd.args :
              LET k == IF a = "new_name" THEN "name" ELSE a
              IN IF upd.args[a] = None
                 THEN upd.server[k] = (IF k = "state" THEN "open" ELSE "old")
                 ELSE /\ upd.body[k] # "null"
                      /\ upd.server[k] \in {upd.body[k],
                                            IF k = "state" THEN "open" ELSE "old"}
        /\ (\A a \in DOMAIN upd.args : upd.args[a] = None) =>
              upd.body = <<>>

C21_Witness ==
    /\ upd.op = "update_milestone"
    /\ upd.pc = "done"
    /\ upd.retkind = "Ok"
    /\ upd.args = [title |-> "new", description |-> None, due_on |-> None,
                   state |-> "Closed"]
    /\ DOMAIN upd.body = {"title", "state"}
    /\ upd.server = [title |-> "new", description |-> "old", due_on |-> "old",
                     state |-> "closed"]

\* C22: when update_issue has returned Ok, the issue has no milestone if
\* milestone_number was Some(None), and has the milestone it had before if
\* milestone_number was None.
C22_SomeNoneRemovesMilestone ==
    (upd.op = "update_issue" /\ upd.pc = "done" /\ upd.retkind = "Ok") =>
        /\ upd.args.milestone_number = "SomeNone" =>
              upd.server.milestone = "null"
        /\ upd.args.milestone_number = None => upd.server.milestone = "M1"

\* C23: when add_requested_reviewers has returned Ok((added, skipped)), a
\* write for the added reviewers was sent whenever added is non-empty, and
\* skipped is exactly the inputs that were already requested.
C23_AddedReviewersWereRequested ==
    (svc.op = "PullRequestService::add_requested_reviewers"
        /\ svc.pc = "done" /\ svc.retkind = "Ok") =>
        /\ svc.added # <<>> => svc.writes # <<>>
        /\ svc.skipped =
              SelectSeq(svc.input, LAMBDA u : \E i \in DOMAIN svc.read :
                                                 svc.read[i] = u)

\* C24: when one of the two add_assignees has returned Ok((added, skipped)),
\* skipped is the inputs found in the list read, added is the other inputs,
\* both in input order; a write was made exactly when added is non-empty,
\* and the list written is the list read followed by added. A call that
\* failed made no write for an empty added list either.
C24_AddAssigneesPartitionsInput ==
    (svc.op \in {"IssueService::add_assignees",
                 "PullRequestService::add_assignees"} /\ svc.pc = "done") =>
        /\ svc.retkind = "Ok" =>
              /\ svc.skipped =
                    SelectSeq(svc.input, LAMBDA u : \E i \in DOMAIN svc.read :
                                                       svc.read[i] = u)
              /\ svc.added =
                    SelectSeq(svc.input, LAMBDA u : \A i \in DOMAIN svc.read :
                                                       svc.read[i] # u)
              /\ svc.writes = IF svc.added = <<>> THEN <<>>
                              ELSE << svc.read \o svc.added >>
        /\ svc.writes # <<>> => svc.added # <<>>

C24_Witness ==
    /\ svc.op = "PullRequestService::add_assignees"
    /\ svc.pc = "done" /\ svc.retkind = "Ok"
    /\ svc.input = <<"u2", "u1">>
    /\ svc.read = <<"u1">>
    /\ svc.added = <<"u2">> /\ svc.skipped = <<"u1">>
    /\ svc.writes = << <<"u1", "u2">> >>

\* the last request of a create or update over raw HTTP was answered with a
\* 2xx status and a body that does not deserialize
AcceptedButUnparsed ==
    /\ op \in {"create_milestone", "update_milestone",
                "create_label", "update_label"}
    /\ observed.kind = "http"
    /\ observed.http.sent
    /\ observed.http.status \in 200..299
    /\ ~observed.http.parses

\* C25: when a raw-HTTP create or update gets a 2xx status with a body that
\* does not parse, that invocation (which sent its one request) is
\* NonRetryable, the call has returned the error of the NonRetryable arm,
\* no sleep follows it, and nothing is invoked or sent afterwards.
C25_UnparsedBodyIsNotSentAgain ==
    /\ [](AcceptedButUnparsed =>
            /\ last.class = "NonRetryable"
            /\ pc = "done"
            /\ ret.kind = "Err"
            /\ ret.fmt = "Operation {} failed: {}"
            /\ requests = 1
            /\ Len(sleeps) = calls - 1)
    /\ [][AcceptedButUnparsed =>
            (calls' = calls /\ requests' = requests /\ ret' = ret)]_vars

C25_Witness ==
    /\ AcceptedButUnparsed
    /\ op = "create_label"
    /\ observed.http.status = 201
    /\ calls = 2
    /\ pc = "done"
    /\ ret.kind = "Err"

\* C26: a call of retry_with_backoff cancelled during a sleep or during an
\* invocation has returned a failure to its caller, and its operation is not
\* invoked again afterwards.
C26_CancelledCallReturnsFailure ==
    /\ [](\A i \in ConcIds :
            conc[i].pc = "dropped" => conc[i].ret.kind = "Err")
    /\ [][\A i \in ConcIds :
            conc[i].pc = "dropped" => conc'[i].results = conc[i].results]_vars

AttemptStep ==
    /\ attempt' # attempt =>
          \/ pc = "idle" /\ attempt' = 0
          \/ /\ pc = "sleep" /\ pc' = "invoke"
             /\ last.class \in {"RateLimit", "Retryable"}
             /\ attempt' = attempt + 1
    /\ (pc = "sleep" /\ pc' # "sleep") => attempt' = attempt + 1
    /\ (pc = "idle" /\ pc' = "invoke") => attempt' = 0

\* C28: in one call of retry_with_backoff the attempt counter is 0 at the
\* first invocation, changes only by 1 and only when the sleep after a
\* RateLimit or Retryable failure ends, never exceeds limit, and whenever the
\* operation is invoked equals the number of invocations that have failed.
C28_AttemptCountsFailures ==
    /\ [](/\ attempt <= ClaimedLimit
          /\ calls = 0 => attempt = 0
          /\ pc \in {"invoke", "mutate"} =>
                /\ attempt = nRetryable + nRateLimit
                /\ attempt = Finished
          /\ pc = "sleep" => attempt + 1 = nRetryable + nRateLimit)
    /\ [][AttemptStep]_vars

C28_Witness ==
    /\ op = "create_milestone"
    /\ pc = "invoke"
    /\ attempt = 3
    /\ nRetryable = 2 /\ nRateLimit = 1
    /\ calls = 3

\* what one step may do to the sleeps: start one more, and only while the
\* call goes on; a step that returns starts none
SleepStep ==
    /\ sleeps' # sleeps =>
          /\ pc' = "sleep"
          /\ Len(sleeps') = Len(sleeps) + 1
          /\ (calls' = calls \/ (calls' = calls + 1 /\ pc = "invoke"))
    /\ pc' = "done" => sleeps' = sleeps
    /\ calls' # calls => (calls' = calls + 1 /\ Len(sleeps) = calls)

\* C29: in a call of retry_with_backoff as many sleeps have started as
\* invocations have returned while the call goes on, and one fewer once it
\* has returned: one sleep between two consecutive invocations, none before
\* the first, none after the last, whether the call ends by success, by a
\* NonRetryable failure or by exhaustion.
C29_OneSleepBetweenInvocations ==
    /\ [](op # "get_project_node_id" =>
            /\ pc \in {"idle", "invoke", "sleep"} => Len(sleeps) = calls
            /\ pc \in {"mutate", "done"} => Len(sleeps) = calls - 1
            /\ calls = 0 => sleeps = <<>>)
    /\ [][SleepStep]_vars

C29_Witness ==
    /\ pc = "done"
    /\ ret.fmt = "Operation {} failed after {} attempts: {}"
    /\ max_retry_count = SomeBudget(2)
    /\ calls = 3
    /\ sleeps = <<100, 200>>

\* C30: the exhausted-budget error returned by retry_with_backoff carries the
\* error of the last invocation (for a raw-HTTP operation: the status of the
\* last response), and an Ok returned carries the value of the last
\* invocation.
C30_ReturnsLastResult ==
    /\ (pc = "done" /\ ret.fmt = "Operation {} failed after {} attempts: {}") =>
          /\ ret.kind = "Err"
          /\ last.class \in {"RateLimit", "Retryable"}
          /\ ret.cause = IF last.class = "RateLimit"
                         THEN Msg("Rate limit exceeded", 0, "")
                         ELSE last.msg
          /\ (observed.kind = "http" /\ observed.http.sent) =>
                (\/ ret.cause.status = observed.http.status
                 \/ observed.http.status = 429 /\ last.class = "RateLimit")
    /\ (pc = "done" /\ ret.kind = "Ok" /\ op # "get_project_node_id") =>
          /\ last.class = "Ok"
          /\ ret.value = last.value

C30_Witness ==
    /\ op = "update_label"
    /\ pc = "done"
    /\ ret.fmt = "Operation {} failed after {} attempts: {}"
    /\ calls = 16
    /\ nRetryable = 15 /\ nRateLimit = 1
    /\ observed.http.status = 503
    /\ ret.cause.status = 503

\* 100 * 2^a written out as limbs: 25 * 2^(a + 2), which for a <= 57 has its
\* bits within one limb or across two neighbouring ones
ClaimedDelayLimbs(a) ==
    LET q == (a + 2) \div 16
        v == 25 * (2 ^ ((a + 2) % 16))
    IN  [k \in 1..4 |-> IF k = q + 1 THEN v % 65536
                        ELSE IF k = q + 2 THEN v \div 65536
                        ELSE 0]

\* the budget of the call is at most 57 (the default 15 included)
BudgetUpTo57 ==
    run.pc # "idle" /\ (run.budget.some => run.budget.value <= 57)

\* C31: in a call with a budget of at most 57 the delay computed before each
\* sleep is 100 * 2^attempt exactly, with no overflow of u64 in either build
\* (no panic, nothing wrapped); with the default budget no delay is larger
\* than 100 * 2^14 ms.
C31_DelayFitsInU64 ==
    /\ BudgetUpTo57 =>
          /\ run.pc # "panicked"
          /\ run.pc = "sleep" =>
                /\ run.attempt <= 56
                /\ run.ms = ClaimedDelayLimbs(run.attempt)
    /\ (run.pc = "sleep" /\ ~run.budget.some) =>
          /\ run.attempt <= 14
          /\ run.ms[3] = 0 /\ run.ms[4] = 0
          /\ run.ms[2] < 25 \/ (run.ms[2] = 25 /\ run.ms[1] = 0)

C31_Witness ==
    /\ run.budget = SomeBudget(57)
    /\ run.overflow_checks
    /\ run.pc = "sleep"
    /\ run.attempt = 56
    /\ run.ms = <<0, 0, 0, 25600>>

\* C32: from the moment edit_pull_request_assignees is called, through all
\* its attempts and after its return, nobody else writing, the assignees of
\* the pull request are the set it had before the call, or nobody, or
\* new_assignees; never some of the old together with some of the new.
C32_AssigneesOldEmptyOrNew ==
    edit.pc # "idle" => edit.server \in {edit.before, {}, edit.new}

C32_Witness ==
    /\ edit.pc = "done"
    /\ edit.retkind = "Err"
    /\ edit.before = {"u1"}
    /\ edit.new = {"u2"}
    /\ edit.server = {}
    /\ edit.attempt >= 1

\* the names of a list
Names(list) == {list[k] : k \in DOMAIN list}

\* C33: when two IssueService::add_assignees on one issue, with no username
\* in common between their inputs, have both returned Ok, whatever the order
\* of their reads and writes, the issue has every assignee it had before and
\* every username either call reports as added.
C33_ConcurrentAddsKeepBoth ==
    (/\ \A i \in {1, 2} :
           adds.call[i].pc = "done" /\ adds.call[i].retkind = "Ok"
     /\ Names(adds.call[1].input) \cap Names(adds.call[2].input) = {}) =>
        /\ Names(adds.before) \subseteq Names(adds.server)
        /\ Names(adds.call[1].added) \cup Names(adds.call[2].added)
               \subseteq Names(adds.server)

\* a fetch is started only in an invocation that has sent its create, and
\* the step after a sleep starts an invocation at the create
CreateStep ==
    /\ cpr'.fetches # cpr.fetches => cpr.creates = cpr.calls
    /\ cpr'.calls # cpr.calls =>
          /\ cpr'.calls = cpr.calls + 1
          /\ cpr'.pc = "create"
    /\ (cpr.pc = "sleep" /\ cpr.failed_at \in {"fetch", "comments"}
            /\ cpr'.pc # "sleep") =>
          cpr'.pc = "create" /\ cpr'.creates = cpr.creates

\* C34: create_pull_request sends the create request once in each invocation
\* of its closure: after an invocation whose create succeeded and whose
\* follow-up fetch failed with a retryable class, the next invocation starts
\* at the create again.
C34_EveryAttemptCreatesAgain ==
    /\ [](/\ cpr.pc = "create" => cpr.creates = cpr.calls - 1
          /\ cpr.pc \in {"fetch", "comments", "sleep", "done"} =>
                cpr.creates = cpr.calls
          /\ cpr.fetches <= cpr.creates)
    /\ [][CreateStep]_vars

C34_Witness ==
    /\ cpr.pc = "done"
    /\ cpr.retkind = "Ok"
    /\ cpr.calls = 3
    /\ cpr.creates = 3
    /\ cpr.fetches = 3

\* C35: whenever add_issue_to_project or add_pull_request_to_project has got
\* a response to its mutation, it returned Ok with the item id if the
\* response holds a string at data.addProjectV2ItemById.item.id, whatever
\* its errors key, and otherwise NonRetryable with the message of the first
\* errors entry, or with "Unknown GraphQL error" when there is no such
\* message; and Ok is returned in no other way.
C35_ProjectAddOkIffItemId ==
    op \in {"add_issue_to_project", "add_pull_request_to_project"} =>
        /\ observed.kind = "graphql" =>
              IF observed.gql.data /\ observed.gql.item
              THEN /\ last.class = "Ok"
                   /\ ret.kind = "Ok" /\ ret.value = "item_id"
              ELSE /\ last.class = "NonRetryable"
                   /\ last.msg.text =
                         (IF observed.gql.errors.shape = "array"
                          THEN observed.gql.errors.message
                          ELSE "Unknown GraphQL error")
                   /\ pc = "done" /\ ret.kind = "Err"
        /\ ret.kind = "Ok" =>
              observed.kind = "graphql" /\ observed.gql.item

C35_Witness ==
    /\ op = "add_pull_request_to_project"
    /\ observed.kind = "graphql"
    /\ observed.gql.data /\ ~observed.gql.item
    /\ observed.gql.errors.shape = "not_array"
    /\ last.class = "NonRetryable"
    /\ last.msg.text = "Unknown GraphQL error"
    /\ calls = 2
    /\ pc = "done"

\* C36: update_project_item_field_value called with a MultiSelect value is
\* invoked once, sends no request, never sleeps and returns the error of a
\* NonRetryable failure; ProjectService::update_project_item_field given a
\* MultiSelect value returns an error without calling the client.
C36_MultiSelectRejected ==
    fld.value = "MultiSelect" =>
        /\ (fld.entry = "GitHubClient::update_project_item_field_value"
                /\ fld.calls > 0) =>
              /\ fld.last = "NonRetryable"
              /\ fld.calls = 1
              /\ fld.requests = 0
              /\ fld.nsleeps = 0
              /\ fld.pc = "done" /\ fld.retkind = "Err"
        /\ (fld.entry = "ProjectService::update_project_item_field"
                /\ fld.pc # "match") =>
              /\ ~fld.reached_client
              /\ fld.calls = 0 /\ fld.requests = 0
              /\ fld.pc = "done" /\ fld.retkind = "Err"

C36_Witness ==
    /\ fld.value = "MultiSelect"
    /\ fld.entry = "ProjectService::update_project_item_field"
    /\ fld.pc = "done"
    /\ fld.retkind = "Err"
    /\ ~fld.reached_client

====
